---- MODULE Spec2Model ----
(***************************************************************************)
(* Durable task execution of the FDX resource server: executeWorkflow      *)
(* (temporal/client.ts) starts one workflow per call, the workflow runs    *)
(* one activity under the retry policy of temporal/workflows.ts, the       *)
(* activity calls the chaos injector (utils/chaos.ts) and then reads the   *)
(* data set, and the worker (temporal/worker.ts) executes the attempts.    *)
(*                                                                         *)
(* Durations are in milliseconds.  Math.random() draws and the error rate  *)
(* are in thousandths (0.3 is 300), so that comparisons stay integer.      *)
(***************************************************************************)
EXTENDS Integers, Sequences, FiniteSets, TLC

\* ------------------------------------------------------------------ bounds

\* Tasks submitted in one behaviour under a policy of at most ShortAttempts
\* attempts.
MaxTasks == 2

\* Tasks submitted in one behaviour under a longer policy (the configured one).
MaxLongTasks == 1

\* Activity slots of the worker.
NumSlots == 2

\* A policy of at most this many attempts counts as short.
ShortAttempts == 3

\* Largest offset and largest limit an activity is called with.
MaxOffset == 3
MaxLimit == 3

\* Callers of getTemporalClient, and the calls each of them makes.
MaxCallers == 3
MaxCalls == 2

\* Pages a client asks for in a row by following nextOffset.
MaxPages == 4

\* ------------------------------------------------------- utils/chaos.ts

\* enum ChaosErrorType, in declaration order (Object.values keeps it).
ChaosErrorTypeValues ==
    << "DATABASE_CONNECTION", "DATABASE_TIMEOUT", "DATABASE_DEADLOCK",
       "NETWORK_TIMEOUT", "NETWORK_CONNECTION_REFUSED", "SERVICE_UNAVAILABLE",
       "INTERNAL_SERVER_ERROR", "RESOURCE_EXHAUSTED", "NON_RETRYABLE_ERROR" >>

ChaosErrorType == { ChaosErrorTypeValues[i] : i \in 1..Len(ChaosErrorTypeValues) }

errorConfigs ==
    [ DATABASE_CONNECTION |->
        [ message |-> "Failed to connect to database: connection refused",
          statusCode |-> 503, retryable |-> TRUE ],
      DATABASE_TIMEOUT |->
        [ message |-> "Database query timed out after 30000ms",
          statusCode |-> 504, retryable |-> TRUE ],
      DATABASE_DEADLOCK |->
        [ message |-> "Transaction deadlock detected, please retry",
          statusCode |-> 503, retryable |-> TRUE ],
      NETWORK_TIMEOUT |->
        [ message |-> "Network request timed out",
          statusCode |-> 504, retryable |-> TRUE ],
      NETWORK_CONNECTION_REFUSED |->
        [ message |-> "Connection refused: upstream service unavailable",
          statusCode |-> 502, retryable |-> TRUE ],
      SERVICE_UNAVAILABLE |->
        [ message |-> "Service temporarily unavailable due to high load",
          statusCode |-> 503, retryable |-> TRUE ],
      INTERNAL_SERVER_ERROR |->
        [ message |-> "An unexpected internal error occurred",
          statusCode |-> 500, retryable |-> FALSE ],
      RESOURCE_EXHAUSTED |->
        [ message |-> "Resource exhausted: too many open connections",
          statusCode |-> 503, retryable |-> TRUE ],
      NON_RETRYABLE_ERROR |->
        [ message |-> "A non-retryable error occurred",
          statusCode |-> 500, retryable |-> FALSE ] ]

\* t.trim().toUpperCase() on the tokens the environments below use.
TrimUpper(t) ==
    CASE t = "network_timeout"        -> "NETWORK_TIMEOUT"
      [] t = " NON_RETRYABLE_ERROR"   -> "NON_RETRYABLE_ERROR"
      [] t = " internal_server_error" -> "INTERNAL_SERVER_ERROR"
      [] t = "bogus"                  -> "BOGUS"
      [] OTHER                        -> t

\* parseEnabledErrorTypes.  CHAOS_ERROR_TYPES is held as the tokens that
\* split(",") yields; << >> stands for the unset or empty variable, which is
\* the only value !envTypes accepts.
parseEnabledErrorTypes(env) ==
    IF env.CHAOS_ERROR_TYPES = << >>
    THEN ChaosErrorTypeValues
    ELSE LET types == [ i \in 1..Len(env.CHAOS_ERROR_TYPES) |->
                          TrimUpper(env.CHAOS_ERROR_TYPES[i]) ]
             Valid(t) == t \in ChaosErrorType
         IN  SelectSeq(types, Valid)

\* parseFloat( process.env.CHAOS_ERROR_RATE || "0.1" ), in thousandths.
parseFloat(s) ==
    CASE s = "0"   -> 0
      [] s = "0.3" -> 300
      [] s = "1"   -> 1000
      [] OTHER     -> 100

\* getConfig: the configuration is read from the environment on every call.
getConfig(env) ==
    [ enabled           |-> env.CHAOS_ENABLED = "true",
      errorRate         |-> parseFloat(IF env.CHAOS_ERROR_RATE = "" THEN "0.1"
                                       ELSE env.CHAOS_ERROR_RATE),
      enabledErrorTypes |-> parseEnabledErrorTypes(env) ]

\* What a call leaves behind: nothing thrown, or a thrown failure with the
\* fields Temporal reads (ApplicationFailure type and nonRetryable flag).
NoThrow == [ thrown |-> FALSE, type |-> "none", nonRetryable |-> FALSE,
             message |-> "" ]

Throw(type, nonRetryable, message) ==
    [ thrown |-> TRUE, type |-> type, nonRetryable |-> nonRetryable,
      message |-> message ]

\* NotRetryable with the retryable flag of the table never consulted.
NotRetryableIgnored(errorType) == FALSE

\* (variant) retry eligibility read off the message
NotRetryableByMessage(errorType) ==
    errorConfigs[errorType].message = "A non-retryable error occurred"

\* Whether errorConfigs[errorType] is marked non-retryable (chaos.ts:136).
NotRetryable(errorType) == ~errorConfigs[errorType].retryable

\* (variant) an injector that spares one operation
maybeCauseChaosSparing(env, operationName, r1, r2) ==
    LET config == getConfig(env)
        n      == Len(config.enabledErrorTypes)
    IN  IF ~config.enabled \/ operationName = "getCurrentCustomer" THEN NoThrow
        ELSE IF r1 > config.errorRate THEN NoThrow
        ELSE IF n = 0
             THEN Throw("TypeError", FALSE,
                        "Cannot read properties of undefined")
        ELSE LET errorType == config.enabledErrorTypes[((r2 * n) \div 1000) + 1]
             IN  Throw(errorType, NotRetryable(errorType),
                       errorConfigs[errorType].message)

\* maybeCauseChaos( operationName ) with the two Math.random() draws it makes:
\* r1 against the error rate, r2 for the index.  With no enabled type the
\* index reads undefined, errorConfigs[undefined] is undefined and reading
\* .message of it throws a TypeError, a plain Error, which the activity
\* runtime reports as a retryable failure of type "TypeError".
maybeCauseChaos(env, operationName, r1, r2) ==
    LET config == getConfig(env)
        n      == Len(config.enabledErrorTypes)
    IN  IF ~config.enabled THEN NoThrow
        ELSE IF r1 > config.errorRate THEN NoThrow
        ELSE IF n = 0
             THEN Throw("TypeError", FALSE,
                        "Cannot read properties of undefined")
        ELSE LET errorType == config.enabledErrorTypes[((r2 * n) \div 1000) + 1]
             IN  Throw(errorType, NotRetryable(errorType),
                       errorConfigs[errorType].message)

\* (variant) the latency block placed before the enabled check
extraLatencyWhenDisabled(env, r0, r3) ==
    IF env.CHAOS_ADD_LATENCY = "true" /\ r0 < 300
    THEN (r3 * 500) \div 1000
    ELSE 0

\* The latency block of maybeCauseChaosAsync (chaos.ts:147-156): nothing when
\* the injector is disabled; otherwise, when CHAOS_ADD_LATENCY is "true" and
\* the draw r0 is under 0.3, Math.floor( r3 * 500 ) ms are waited.
extraLatency(env, r0, r3) ==
    IF getConfig(env).enabled /\ env.CHAOS_ADD_LATENCY = "true" /\ r0 < 300
    THEN (r3 * 500) \div 1000
    ELSE 0

\* maybeCauseChaosAsync: r0 decides the latency (drawn only when
\* CHAOS_ADD_LATENCY is "true"), r3 its length; then maybeCauseChaos.
maybeCauseChaosAsync(env, operationName, r0, r3, r1, r2) ==
    [ latency |-> extraLatency(env, r0, r3),
      failure |-> maybeCauseChaos(env, operationName, r1, r2) ]

\* Values Math.random() is drawn from, in thousandths of [0, 1).
Draws == { 0, 300, 500, 999 }

\* Environments the process is started with.
Envs ==
    { [ CHAOS_ENABLED |-> "", CHAOS_ERROR_RATE |-> "",
        CHAOS_ERROR_TYPES |-> << >>, CHAOS_ADD_LATENCY |-> "" ],
      [ CHAOS_ENABLED |-> "true", CHAOS_ERROR_RATE |-> "1",
        CHAOS_ERROR_TYPES |-> << "DATABASE_TIMEOUT" >>,
        CHAOS_ADD_LATENCY |-> "" ],
      [ CHAOS_ENABLED |-> "true", CHAOS_ERROR_RATE |-> "0.3",
        CHAOS_ERROR_TYPES |-> << "network_timeout", " NON_RETRYABLE_ERROR",
                                 " internal_server_error" >>,
        CHAOS_ADD_LATENCY |-> "true" ],
      [ CHAOS_ENABLED |-> "true", CHAOS_ERROR_RATE |-> "1",
        CHAOS_ERROR_TYPES |-> << "bogus" >>, CHAOS_ADD_LATENCY |-> "" ] }

\* ------------------------------------------------- temporal/workflows.ts

\* The retry option of proxyActivities (second definition, lines 113-121).
ConfiguredPolicy ==
    [ initialInterval |-> 500, backoffCoefficient |-> 2,
      maximumInterval |-> 5000, maximumAttempts |-> 10,
      nonRetryableErrorTypes |-> {} ]

\* The retry option of proxyActivities (first definition, lines 17-26).
ConfiguredPolicyTyped ==
    [ initialInterval |-> 500, backoffCoefficient |-> 2,
      maximumInterval |-> 5000, maximumAttempts |-> 10,
      nonRetryableErrorTypes |-> { "NonRetryableError" } ]

\* Other values of the same option, for the statements made of every policy.
ShortPolicies ==
    { [ initialInterval |-> 500, backoffCoefficient |-> 2,
        maximumInterval |-> 800, maximumAttempts |-> 3,
        nonRetryableErrorTypes |-> {} ],
      [ initialInterval |-> 100, backoffCoefficient |-> 1,
        maximumInterval |-> 5000, maximumAttempts |-> 2,
        nonRetryableErrorTypes |-> { "NETWORK_TIMEOUT" } ],
      [ initialInterval |-> 500, backoffCoefficient |-> 2,
        maximumInterval |-> 5000, maximumAttempts |-> 1,
        nonRetryableErrorTypes |-> {} ] }

Policies == { ConfiguredPolicy, ConfiguredPolicyTyped } \cup ShortPolicies

\* The workflows of workflows.ts, each with the activity it awaits.
WorkflowActivity ==
    [ getCurrentCustomerWorkflow |-> "getCurrentCustomer",
      getAccountByIdWorkflow     |-> "getAccountById" ]

\* The workflow the callers of this model start (fetchAccountById).
WorkflowNames == { "getAccountByIdWorkflow" }

Min(a, b) == IF a < b THEN a ELSE b

RECURSIVE Pow(_, _)
Pow(b, n) == IF n = 0 THEN 1 ELSE b * Pow(b, n - 1)

\* BackoffInterval without the cap at maximumInterval.
BackoffIntervalUncapped(p, attempt) ==
    p.initialInterval * Pow(p.backoffCoefficient, attempt - 1)

\* BackoffInterval with the exponent taken one too high.
BackoffIntervalLate(p, attempt) ==
    Min(p.initialInterval * Pow(p.backoffCoefficient, attempt), p.maximumInterval)

\* The interval before the retry that follows failed attempt number `attempt`:
\* initialInterval * backoffCoefficient^(attempt - 1), capped at
\* maximumInterval.  The product is built one factor at a time and capped as
\* soon as it passes the maximum.
RECURSIVE BackoffInterval(_, _)
BackoffInterval(p, attempt) ==
    IF attempt <= 1
    THEN Min(p.initialInterval, p.maximumInterval)
    ELSE Min(BackoffInterval(p, attempt - 1) * p.backoffCoefficient,
             p.maximumInterval)

\* ShouldRetry counting the attempts one too few.
ShouldRetryOnceMore(p, attempt, failure) ==
    /\ ~failure.nonRetryable
    /\ failure.type \notin p.nonRetryableErrorTypes
    /\ attempt <= p.maximumAttempts

\* Whether a failed attempt is retried under the policy: not when the failure
\* is flagged non-retryable, nor when its type is listed in
\* nonRetryableErrorTypes, nor when maximumAttempts attempts were made.
ShouldRetry(p, attempt, failure) ==
    /\ ~failure.nonRetryable
    /\ failure.type \notin p.nonRetryableErrorTypes
    /\ attempt < p.maximumAttempts

\* --------------------------------------------- temporal/activities.ts

\* What the activity body resolves with once the injector let it through: the
\* record found in the data set (an opaque value here).
ActivityBody(activity) == << "data", activity >>

\* --------------------------------------- activities.ts, the data access

\* array.slice( start, end ) on a sequence: a negative index counts from the
\* end, both indices are clamped to the length.
SliceIndex(len, i) == IF i < 0 THEN (IF len + i < 0 THEN 0 ELSE len + i)
                      ELSE (IF i > len THEN len ELSE i)

Slice(seq, start, end) ==
    LET from == SliceIndex(Len(seq), start)
        to   == SliceIndex(Len(seq), end)
    IN  IF to <= from THEN << >> ELSE SubSeq(seq, from + 1, to)

\* table[ key ] || []
Lookup(table, key) == IF key \in DOMAIN table THEN table[key] ELSE << >>

\* array.find( test ) || null as a list, given the elements that pass the
\* test in order: the first of them, or nothing.
FindFirst(hits) == IF hits = << >> THEN << >> ELSE << hits[1] >>

\* Dates are days since the epoch; "" as argument is Unset, a string that is
\* no date is InvalidDate ( new Date( s ) is NaN: every comparison is false ).
Unset == 0
InvalidDate == -1
MaxDate == 100

StartDate(startTime) == IF startTime = Unset THEN 0 ELSE startTime
EndDate(endTime) == IF endTime = Unset THEN MaxDate ELSE endTime

\* date >= startDate && date <= endDate
InRange(date, startTime, endTime) ==
    /\ startTime # InvalidDate
    /\ endTime # InvalidDate
    /\ date >= StartDate(startTime)
    /\ date <= EndDate(endTime)

\* The data sets of data/customers.js and data/accounts.js (sample contents).
SampleData ==
    [ customers |-> << [ customerId |-> "customer-123", status |-> "active" ],
                       [ customerId |-> "customer-456", status |-> "inactive" ],
                       [ customerId |-> "customer-789", status |-> "active" ] >>,
      accounts |-> << [ accountId |-> "acc-1" ], [ accountId |-> "acc-2" ],
                      [ accountId |-> "acc-3" ] >>,
      accountContacts |-> [ a \in { "acc-1", "acc-2" } |-> [ holder |-> a ] ],
      accountStatements |->
          [ a \in { "acc-1", "acc-2" } |->
              IF a = "acc-1"
              THEN << [ statementId |-> "s1", statementDate |-> 10 ],
                      [ statementId |-> "s2", statementDate |-> 20 ],
                      [ statementId |-> "s3", statementDate |-> 30 ] >>
              ELSE << >> ],
      accountTransactions |->
          [ a \in { "acc-1" } |->
              << [ transactionId |-> "t1", postedTimestamp |-> 15 ],
                 [ transactionId |-> "t2", postedTimestamp |-> 25 ] >> ],
      accountPaymentNetworks |->
          [ a \in { "acc-1", "acc-2" } |->
              IF a = "acc-1"
              THEN << [ bankId |-> "b1" ], [ bankId |-> "b2" ], [ bankId |-> "b3" ] >>
              ELSE << [ bankId |-> "b4" ] >> ] ]

\* What an activity leaves behind: the data sets after it, and what it
\* resolved with (items: the object or the page, total: the count reported).
Out(data, field, items, total) ==
    [ data |-> data, result |-> [ field |-> field, items |-> items, total |-> total ] ]

\* customers.find( c => c.customerId === "customer-123" ) || null
getCurrentCustomer(data) ==
    LET currentCustomer ==
            FindFirst(SelectSeq(data.customers, LAMBDA c : c.customerId = "customer-123"))
    IN  Out(data, "customer", currentCustomer, Len(currentCustomer))

getCustomerById(data, customerId) ==
    LET customer == FindFirst(SelectSeq(data.customers, LAMBDA c : c.customerId = customerId))
    IN  Out(data, "customer", customer, Len(customer))

\* (variant) a filter applied to the data set itself
getCustomersFilteringInPlace(data, filters) ==
    LET filteredCustomers ==
            IF filters.status # ""
            THEN SelectSeq(data.customers, LAMBDA c : c.status = filters.status)
            ELSE data.customers
    IN  Out([ data EXCEPT !.customers = filteredCustomers ], "customers",
            filteredCustomers, Len(filteredCustomers))

\* filters.status is "" where the caller gave none; the filter runs on a copy.
getCustomers(data, filters) ==
    LET copy == data.customers
        filteredCustomers ==
            IF filters.status # ""
            THEN SelectSeq(copy, LAMBDA c : c.status = filters.status)
            ELSE copy
    IN  Out(data, "customers", filteredCustomers, Len(filteredCustomers))

getAccounts(data, offset, limit) ==
    Out(data, "accounts", Slice(data.accounts, offset, offset + limit),
        Len(data.accounts))

getAccountById(data, accountId) ==
    LET account == FindFirst(SelectSeq(data.accounts, LAMBDA acc : acc.accountId = accountId))
    IN  Out(data, "account", account, Len(account))

getAccountContactById(data, accountId) ==
    LET contactInfo == IF accountId \in DOMAIN data.accountContacts
                       THEN << data.accountContacts[accountId] >>
                       ELSE << >>
    IN  Out(data, "contact", contactInfo, Len(contactInfo))

getAccountStatements(data, accountId, offset, limit, startTime, endTime) ==
    LET statementsForAccount == Lookup(data.accountStatements, accountId)
        statements ==
            SelectSeq(statementsForAccount,
                      LAMBDA statement :
                          InRange(statement.statementDate, startTime, endTime))
    IN  Out(data, "statements", Slice(statements, offset, offset + limit),
            Len(statements))

getAccountStatementById(data, accountId, statementId) ==
    LET statementsForAccount == Lookup(data.accountStatements, accountId)
        statement ==
            FindFirst(SelectSeq(statementsForAccount, LAMBDA st : st.statementId = statementId))
    IN  Out(data, "statement", statement, Len(statement))

getAccountTransactions(data, accountId, offset, limit, startTime, endTime) ==
    LET transactionsForAccount == Lookup(data.accountTransactions, accountId)
        filtered ==
            SelectSeq(transactionsForAccount,
                      LAMBDA tx : InRange(tx.postedTimestamp, startTime, endTime))
    IN  Out(data, "transactions", Slice(filtered, offset, offset + limit),
            Len(filtered))

getPaymentNetworks(data, accountId, offset, limit) ==
    LET networks == Lookup(data.accountPaymentNetworks, accountId)
    IN  Out(data, "paymentNetworks", Slice(networks, offset, offset + limit),
            Len(networks))

\* (variant) a page counted by its own length
getAssetTransferNetworksPageTotal(data, accountId, offset, limit) ==
    LET networks == Lookup(data.accountPaymentNetworks, accountId)
        paginated == Slice(networks, offset, offset + limit)
    IN  Out(data, "assetTransferNetworks", paginated, Len(paginated))

getAssetTransferNetworks(data, accountId, offset, limit) ==
    LET networks == Lookup(data.accountPaymentNetworks, accountId)
    IN  Out(data, "assetTransferNetworks", Slice(networks, offset, offset + limit),
            Len(networks))

\* The exported activities.
ActivityNames ==
    { "getCurrentCustomer", "getCustomerById", "getCustomers", "getAccounts",
      "getAccountById", "getAccountContactById", "getAccountStatements",
      "getAccountStatementById", "getAccountTransactions", "getPaymentNetworks",
      "getAssetTransferNetworks" }

\* Arguments the activities are called with. The record has one field per
\* parameter name; an activity reads the fields it declares.
AccountIds == { "acc-1", "acc-2", "acc-9" }
Offsets == -1..MaxOffset
Limits == -1..MaxLimit
DateArgs == { Unset, InvalidDate, 10, 20, 26 }

NoArguments ==
    [ customerId |-> "", accountId |-> "", statementId |-> "", status |-> "",
      offset |-> 0, limit |-> 0, startTime |-> Unset, endTime |-> Unset ]

ArgumentsOf(activity) ==
    CASE activity = "getCurrentCustomer" -> { NoArguments }
      [] activity = "getCustomerById" ->
            { [ NoArguments EXCEPT !.customerId = c ] :
                c \in { "customer-123", "customer-456", "customer-000" } }
      [] activity = "getCustomers" ->
            { [ NoArguments EXCEPT !.status = st ] :
                st \in { "", "active", "inactive", "closed" } }
      [] activity = "getAccounts" ->
            { [ NoArguments EXCEPT !.offset = o, !.limit = l ] :
                o \in Offsets, l \in Limits }
      [] activity \in { "getAccountById", "getAccountContactById" } ->
            { [ NoArguments EXCEPT !.accountId = a ] : a \in AccountIds }
      [] activity \in { "getAccountStatements", "getAccountTransactions" } ->
            { [ NoArguments EXCEPT !.accountId = a, !.offset = o, !.limit = l,
                                   !.startTime = st, !.endTime = en ] :
                a \in AccountIds, o \in { 0, 1 },
                l \in { 1, MaxLimit }, st \in DateArgs, en \in DateArgs }
      [] activity = "getAccountStatementById" ->
            { [ NoArguments EXCEPT !.accountId = a, !.statementId = st ] :
                a \in AccountIds, st \in { "s1", "s3", "s9" } }
      [] OTHER ->
            { [ NoArguments EXCEPT !.accountId = a, !.offset = o, !.limit = l ] :
                a \in AccountIds, o \in Offsets, l \in Limits }

ActivityArguments == [ activity \in ActivityNames |-> ArgumentsOf(activity) ]

\* The body of the activity of that name, applied to its arguments.
CallActivity(activity, data, a) ==
    CASE activity = "getCurrentCustomer" -> getCurrentCustomer(data)
      [] activity = "getCustomerById" -> getCustomerById(data, a.customerId)
      [] activity = "getCustomers" -> getCustomers(data, [ status |-> a.status ])
      [] activity = "getAccounts" -> getAccounts(data, a.offset, a.limit)
      [] activity = "getAccountById" -> getAccountById(data, a.accountId)
      [] activity = "getAccountContactById" ->
            getAccountContactById(data, a.accountId)
      [] activity = "getAccountStatements" ->
            getAccountStatements(data, a.accountId, a.offset, a.limit,
                                 a.startTime, a.endTime)
      [] activity = "getAccountStatementById" ->
            getAccountStatementById(data, a.accountId, a.statementId)
      [] activity = "getAccountTransactions" ->
            getAccountTransactions(data, a.accountId, a.offset, a.limit,
                                   a.startTime, a.endTime)
      [] activity = "getPaymentNetworks" ->
            getPaymentNetworks(data, a.accountId, a.offset, a.limit)
      [] activity = "getAssetTransferNetworks" ->
            getAssetTransferNetworks(data, a.accountId, a.offset, a.limit)

\* ------------------------------------------------------------- state

VARIABLES
    policy,     \* the retry option the workflows were loaded with
    processEnv, \* process.env of the worker
    tasks,      \* the workflows started so far, in submission order
    slots,      \* worker slot -> index of the task whose attempt it runs, or 0
    nextUuid,   \* number of uuidv4() values drawn so far
    chaosCall,  \* the call of maybeCauseChaosAsync followed step by step
    request,    \* the HTTP request the API is answering
    store,      \* the data sets, and the activity call last run on them
    module,     \* temporal/client.ts: its variable client, and the callers of getTemporalClient
    route       \* the route handler of routes/accounts.ts answering a request

vars ==
    << policy, processEnv, tasks, slots, nextUuid, chaosCall, request, store,
       module, route >>

\* No call of the injector is being followed.
NoCall ==
    [ pc |-> "idle", operationName |-> "", r0 |-> 0, r3 |-> 0, r1 |-> 0,
      r2 |-> 0, latency |-> 0, failure |-> NoThrow ]

\* The empty string where a token is expected.
NoToken ==
    [ compact |-> FALSE, signed |-> FALSE, expired |-> FALSE, iss |-> "",
      aud |-> "", scope |-> { } ]

\* req.user before the auth middleware has set it.
NoUser == [ iss |-> "", aud |-> "", scope |-> { } ]

\* No error was passed to next().
NoError ==
    [ class |-> "none", errorType |-> "", message |-> "", statusCode |-> 0,
      retryable |-> FALSE ]

\* A request without Authorization header.
NoAuthorization == [ scheme |-> "", credentials |-> NoToken ]

\* No request is being answered.
NoRequest ==
    [ pc |-> "idle", path |-> "", authorization |-> NoAuthorization,
      token |-> NoToken, user |-> NoUser, handler |-> "none",
      error |-> NoError, sent |-> << >> ]

Slots == 1..NumSlots

NoResult == [ tag |-> "none", value |-> << >>, kind |-> "none", message |-> "" ]

Success(value) ==
    [ tag |-> "Success", value |-> value, kind |-> "none", message |-> "" ]

Failure(f) ==
    [ tag |-> "Failure", value |-> << >>, kind |-> f.type, message |-> f.message ]

Terminal(task) == task.status \in { "Succeeded", "Failed" }

\* Number of tasks one behaviour submits under policy p.
TaskLimit(p) ==
    IF p.maximumAttempts <= ShortAttempts THEN MaxTasks ELSE MaxLongTasks

\* client.ts as loaded: client is null (0), nothing has called yet.
NoModule ==
    [ client |-> 0, connections |-> 0, clients |-> 0,
      callers |-> [ c \in 1..MaxCallers |-> [ pc |-> "idle", got |-> 0, calls |-> 0 ] ] ]

\* No request is with a route handler.
NoRoute ==
    [ pc |-> "idle", endpoint |-> "", arguments |-> NoArguments,
      submitted |-> << >>, failure |-> NoThrow,
      result |-> [ field |-> "", items |-> << >>, total |-> 0 ],
      sent |-> << >>, escaped |-> FALSE, pages |-> 0, collected |-> << >> ]

\* No activity has run on the data sets yet.
NoStore ==
    [ data |-> SampleData, activity |-> "", arguments |-> NoArguments,
      result |-> [ field |-> "", items |-> << >>, total |-> 0 ],
      failure |-> NoThrow ]

Init ==
    /\ policy \in Policies
    /\ processEnv \in Envs
    /\ tasks = << >>
    /\ slots = [ s \in Slots |-> 0 ]
    /\ nextUuid = 0
    /\ chaosCall = NoCall
    /\ store = NoStore
    /\ module = NoModule
    /\ route = NoRoute
    /\ request = NoRequest

\* --------------------------------------------------- temporal/client.ts

\* WorkflowId built from the workflow name alone.
WorkflowIdByName(workflowName, uuid) == << workflowName, 0 >>

\* The workflowId of executeWorkflow: `${ workflowName }-${ uuidv4() }`.
\* uuidv4() is taken to return a value it has not returned before.
WorkflowId(workflowName, uuid) == << workflowName, uuid >>

\* executeWorkflow up to its await of handle.result(): the workflow is started
\* under a new workflowId, its activity is scheduled as attempt 1, and the
\* caller waits.
Submit(workflowName) ==
    /\ Len(tasks) < TaskLimit(policy)
    /\ tasks' = Append(tasks,
          [ workflowId   |-> WorkflowId(workflowName, nextUuid + 1),
            workflowName |-> workflowName,
            status       |-> "Pending",
            attempt      |-> 1,
            started      |-> 0,
            delays       |-> << >>,
            lastFailure  |-> "none",
            result       |-> NoResult,
            caller       |-> "waiting",
            observed     |-> NoResult ])
    /\ nextUuid' = nextUuid + 1
    /\ UNCHANGED << store, request, chaosCall, policy, processEnv, slots, module, route >>

\* What handle.result() does for the caller once the workflow is closed.
Observe(task) ==
    [ task EXCEPT !.caller = IF task.result.tag = "Success" THEN "returned"
                             ELSE "raised",
                  !.observed = task.result ]

\* AwaitResult answering as soon as an attempt has failed.
AwaitResultEarly(t) ==
    /\ t \in 1..Len(tasks)
    /\ tasks[t].caller = "waiting"
    /\ Terminal(tasks[t]) \/ tasks[t].status = "Backoff"
    /\ tasks' = [ tasks EXCEPT ![t] = Observe(tasks[t]) ]
    /\ UNCHANGED << store, request, chaosCall, policy, processEnv, slots, nextUuid, module, route >>

\* (variant) an executeWorkflow that starts the workflow again when it failed
AwaitResultResubmitting(t) ==
    /\ t \in 1..Len(tasks)
    /\ tasks[t].caller = "waiting"
    /\ Terminal(tasks[t])
    /\ IF tasks[t].status = "Failed" /\ Len(tasks) < TaskLimit(policy)
       THEN /\ tasks' = Append([ tasks EXCEPT ![t].caller = "resubmitted" ],
                   [ tasks[t] EXCEPT
                       !.workflowId = WorkflowId(tasks[t].workflowName, nextUuid + 1),
                       !.status = "Pending", !.attempt = 1, !.started = 0,
                       !.delays = << >>, !.lastFailure = "none",
                       !.result = NoResult ])
            /\ nextUuid' = nextUuid + 1
       ELSE /\ tasks' = [ tasks EXCEPT ![t] = Observe(tasks[t]) ]
            /\ nextUuid' = nextUuid
    /\ UNCHANGED << store, request, chaosCall, policy, processEnv, slots, module, route >>

\* (variant) an await that completes only for a value
AwaitResultValueOnly(t) ==
    /\ t \in 1..Len(tasks)
    /\ tasks[t].caller = "waiting"
    /\ tasks[t].status = "Succeeded"
    /\ tasks' = [ tasks EXCEPT ![t] = Observe(tasks[t]) ]
    /\ UNCHANGED << store, request, chaosCall, policy, processEnv, slots, nextUuid, module, route >>

\* The await of handle.result() in executeWorkflow completing: the caller gets
\* the value, or the failure is thrown to it.
AwaitResult(t) ==
    /\ t \in 1..Len(tasks)
    /\ tasks[t].caller = "waiting"
    /\ Terminal(tasks[t])
    /\ tasks' = [ tasks EXCEPT ![t] = Observe(tasks[t]) ]
    /\ UNCHANGED << store, request, chaosCall, policy, processEnv, slots, nextUuid, module, route >>

\* --------------------------------------------------- temporal/worker.ts

\* Claimable delivering an attempt that a slot already runs.
ClaimableRunning(s, t) ==
    slots[s] = 0 /\ tasks[t].status \in { "Pending", "Running" }

\* Claimable delivering attempts of closed workflows.
ClaimableClosed(s, t) ==
    slots[s] = 0 /\ tasks[t].status \in { "Pending", "Succeeded", "Failed" }

\* Whether slot s may take the attempt of task t: the slot is idle and the
\* attempt is waiting on the task queue.
Claimable(s, t) == slots[s] = 0 /\ tasks[t].status = "Pending"

\* A slot of the worker takes a scheduled attempt off the task queue.
ClaimAttempt(s, t) ==
    /\ t \in 1..Len(tasks)
    /\ Claimable(s, t)
    /\ slots' = [ slots EXCEPT ![s] = t ]
    /\ tasks' = [ tasks EXCEPT ![t].status = "Running",
                               ![t].started = @ + 1,
                               ![t].lastFailure = "none" ]
    /\ UNCHANGED << store, request, chaosCall, policy, processEnv, nextUuid, module, route >>

\* The task after its running attempt ended with `failure` (NoThrow: the
\* activity body resolved).
AfterAttempt(task, failure) ==
    IF ~failure.thrown
    THEN [ task EXCEPT !.status = "Succeeded",
                       !.result = Success(ActivityBody(WorkflowActivity[task.workflowName])) ]
    ELSE IF ShouldRetry(policy, task.attempt, failure)
    THEN [ task EXCEPT !.status = "Backoff",
                       !.attempt = @ + 1,
                       !.delays = Append(@, BackoffInterval(policy, task.attempt)),
                       !.lastFailure = failure.type ]
    ELSE [ task EXCEPT !.status = "Failed",
                       !.lastFailure = failure.type,
                       !.result = Failure(failure) ]

Activities == { WorkflowActivity[w] : w \in WorkflowNames }

\* Every way one activity call can go through the injector: the outcomes of
\* maybeCauseChaosAsync over all values of its four Math.random() draws, for
\* each environment and activity.
ChaosOutcomes ==
    { << e, a, maybeCauseChaosAsync(e, a, r0, r3, r1, r2) >> :
        e \in Envs, a \in Activities,
        r0 \in Draws, r3 \in Draws, r1 \in Draws, r2 \in Draws }

AllOutcomes == { x[3] : x \in ChaosOutcomes }

\* (variant) a worker that goes down with an unclassified exception
RunAttemptCrashing(s, outcome) ==
    /\ slots[s] # 0
    /\ << processEnv, WorkflowActivity[tasks[slots[s]].workflowName], outcome >> \in ChaosOutcomes
    /\ tasks' = [ tasks EXCEPT ![slots[s]] = AfterAttempt(@, outcome.failure) ]
    /\ slots' = IF outcome.failure.type = "TypeError"
                THEN [ s2 \in Slots |-> 0 ]
                ELSE [ slots EXCEPT ![s] = 0 ]
    /\ UNCHANGED << store, request, chaosCall, policy, processEnv, nextUuid, module, route >>

\* (variant) a slot that stays with its task over the retry delay
RunAttemptHoldingSlot(s, outcome) ==
    /\ slots[s] # 0
    /\ << processEnv, WorkflowActivity[tasks[slots[s]].workflowName], outcome >> \in ChaosOutcomes
    /\ tasks' = [ tasks EXCEPT ![slots[s]] = AfterAttempt(@, outcome.failure) ]
    /\ slots' = IF tasks'[slots[s]].status = "Backoff"
                THEN slots
                ELSE [ slots EXCEPT ![s] = 0 ]
    /\ UNCHANGED << store, request, chaosCall, policy, processEnv, nextUuid, module, route >>

\* The attempt held by slot s runs the activity: the injector first, then the
\* body.  Its outcome goes through the retry policy and the slot is released.
RunAttempt(s, outcome) ==
    /\ slots[s] # 0
    /\ << processEnv, WorkflowActivity[tasks[slots[s]].workflowName], outcome >> \in ChaosOutcomes
    /\ tasks' = [ tasks EXCEPT ![slots[s]] = AfterAttempt(@, outcome.failure) ]
    /\ slots' = [ slots EXCEPT ![s] = 0 ]
    /\ UNCHANGED << store, request, chaosCall, policy, processEnv, nextUuid, module, route >>

\* The retry timer of task t fires: its next attempt is put on the task queue.
TimerFire(t) ==
    /\ t \in 1..Len(tasks)
    /\ tasks[t].status = "Backoff"
    /\ tasks' = [ tasks EXCEPT ![t].status = "Pending" ]
    /\ UNCHANGED << store, request, chaosCall, policy, processEnv, slots, nextUuid, module, route >>

Next ==
    \/ \E w \in WorkflowNames : Submit(w)
    \/ \E s \in Slots, t \in 1..MaxTasks : ClaimAttempt(s, t)
    \/ \E s \in Slots, outcome \in AllOutcomes : RunAttempt(s, outcome)
    \/ \E t \in 1..MaxTasks : TimerFire(t)
    \/ \E t \in 1..MaxTasks : AwaitResult(t)

Spec == Init /\ [][Next]_vars

\* ----------------------------------- workflows.ts, startToCloseTimeout

\* (variant) a timeout that closes the activity for good
TimeoutFailureFinal ==
    Throw("TimeoutFailure", TRUE, "activity StartToClose timeout")

\* What the server records for an attempt that did not complete within
\* startToCloseTimeout ("30s"): a failure of type TimeoutFailure, which the
\* retry option does not exclude from retrying.
TimeoutFailure ==
    Throw("TimeoutFailure", FALSE, "activity StartToClose timeout")

\* The attempt held by slot s has run for startToCloseTimeout without
\* completing (its worker stalled): the server ends the attempt with a
\* timeout failure, which goes through the retry policy like any failure.
\* Whatever the worker reports for that attempt later is dropped, so the slot
\* counts as released.
DeadlineExceeded(s) ==
    /\ slots[s] # 0
    /\ tasks' = [ tasks EXCEPT ![slots[s]] = AfterAttempt(@, TimeoutFailure) ]
    /\ slots' = [ slots EXCEPT ![s] = 0 ]
    /\ UNCHANGED << store, request, chaosCall, policy, processEnv, nextUuid, module, route >>

NextDeadline ==
    \/ Next
    \/ \E s \in Slots : DeadlineExceeded(s)

SpecDeadline == Init /\ [][NextDeadline]_vars

\* The dispatch under the scheduling the worker and the server give: a polling
\* slot takes a waiting attempt, an attempt that was taken completes or is ended
\* by its deadline, a retry timer that was set fires, and a caller awaiting a
\* closed workflow is answered.
Fairness ==
    /\ \A t \in 1..MaxTasks : WF_vars(\E s \in Slots : ClaimAttempt(s, t))
    /\ \A s \in Slots :
          WF_vars((\E outcome \in AllOutcomes : RunAttempt(s, outcome))
                    \/ DeadlineExceeded(s))
    /\ \A t \in 1..MaxTasks : WF_vars(TimerFire(t))
    /\ \A t \in 1..MaxTasks : WF_vars(AwaitResult(t))

SpecFair == Init /\ [][NextDeadline]_vars /\ Fairness

\* ------------------------------- utils/chaos.ts, one call step by step

\* Environments of the injector: every combination of the values below.
ChaosEnvs ==
    { [ CHAOS_ENABLED |-> en, CHAOS_ERROR_RATE |-> rate,
        CHAOS_ERROR_TYPES |-> types, CHAOS_ADD_LATENCY |-> lat ] :
        en \in { "", "true", "false" },
        rate \in { "", "0", "0.3", "1" },
        types \in { << >>, << "DATABASE_TIMEOUT" >>,
                    << "network_timeout", " NON_RETRYABLE_ERROR",
                       " internal_server_error" >>,
                    << "bogus" >> },
        lat \in { "", "true" } }

\* Values of Math.random() for the index draw, fine enough to reach each of
\* the nine kinds.
IndexDraws == { 0, 100, 200, 300, 400, 500, 600, 700, 800, 900, 999 }

\* The operation names the activities pass to the injector.
OperationNames == { WorkflowActivity[w] : w \in DOMAIN WorkflowActivity }

InitChaos ==
    /\ policy = ConfiguredPolicy
    /\ processEnv \in ChaosEnvs
    /\ tasks = << >>
    /\ slots = [ s \in Slots |-> 0 ]
    /\ nextUuid = 0
    /\ chaosCall = NoCall
    /\ store = NoStore
    /\ module = NoModule
    /\ route = NoRoute
    /\ request = NoRequest

\* maybeCauseChaosAsync( operationName ) up to its call of maybeCauseChaos:
\* a disabled injector returns at once; otherwise the latency, if any, has
\* been awaited.
ChaosBegin(operationName, r0, r3) ==
    /\ chaosCall.pc = "idle"
    /\ chaosCall' =
          [ NoCall EXCEPT
              !.pc = IF getConfig(processEnv).enabled THEN "delayed" ELSE "done",
              !.operationName = operationName,
              !.r0 = r0,
              !.r3 = r3,
              !.latency = extraLatency(processEnv, r0, r3) ]
    /\ UNCHANGED << store, request, policy, processEnv, tasks, slots, nextUuid, module, route >>

\* (variant) a call that returns after its latency without the error check
ChaosCheckSkippedAfterLatency(r1, r2) ==
    /\ chaosCall.pc = "delayed"
    /\ chaosCall' =
          [ chaosCall EXCEPT
              !.pc = "done",
              !.r1 = r1,
              !.r2 = r2,
              !.failure = IF chaosCall.latency > 0
                          THEN NoThrow
                          ELSE maybeCauseChaos(processEnv, chaosCall.operationName, r1, r2) ]
    /\ UNCHANGED << store, request, policy, processEnv, tasks, slots, nextUuid, module, route >>

\* The call of maybeCauseChaos that ends maybeCauseChaosAsync.
ChaosCheck(r1, r2) ==
    /\ chaosCall.pc = "delayed"
    /\ chaosCall' =
          [ chaosCall EXCEPT
              !.pc = "done",
              !.r1 = r1,
              !.r2 = r2,
              !.failure = maybeCauseChaos(processEnv, chaosCall.operationName, r1, r2) ]
    /\ UNCHANGED << store, request, policy, processEnv, tasks, slots, nextUuid, module, route >>

\* The call is over: the activity goes on, or the failure leaves it.
ChaosReturn ==
    /\ chaosCall.pc = "done"
    /\ chaosCall' = NoCall
    /\ UNCHANGED << store, request, policy, processEnv, tasks, slots, nextUuid, module, route >>

NextChaos ==
    \/ \E op \in OperationNames, r0 \in Draws, r3 \in Draws : ChaosBegin(op, r0, r3)
    \/ \E r1 \in Draws, r2 \in IndexDraws : ChaosCheck(r1, r2)
    \/ ChaosReturn

SpecChaos == InitChaos /\ [][NextChaos]_vars

\* ------------------------------------- activities.ts, one call at a time

\* What the injector can raise in front of an activity, per environment. The
\* injector ignores the operation name, so these are the outcomes of any
\* activity.
ChaosFailures ==
    [ e \in Envs |-> { x[3].failure : x \in { y \in ChaosOutcomes : y[1] = e } } ]

\* An activity whose injector raises: the body never runs.
ActivityFails(activity, failure) ==
    /\ failure \in ChaosFailures[processEnv]
    /\ failure.thrown
    /\ store' = [ NoStore EXCEPT !.data = store.data, !.activity = activity,
                                 !.failure = failure ]
    /\ UNCHANGED << policy, processEnv, tasks, slots, nextUuid, chaosCall, request, module, route >>

\* An activity whose injector raises nothing: the body runs, in one timer
\* callback, so two calls never overlap inside it.
ActivityRuns(activity, a) ==
    /\ NoThrow \in ChaosFailures[processEnv]
    /\ a \in ActivityArguments[activity]
    /\ LET out == CallActivity(activity, store.data, a)
       IN  store' = [ data |-> out.data, activity |-> activity, arguments |-> a,
                      result |-> out.result, failure |-> NoThrow ]
    /\ UNCHANGED << policy, processEnv, tasks, slots, nextUuid, chaosCall, request, module, route >>

InitData ==
    /\ policy = ConfiguredPolicy
    /\ processEnv \in Envs
    /\ tasks = << >>
    /\ slots = [ s \in Slots |-> 0 ]
    /\ nextUuid = 0
    /\ chaosCall = NoCall
    /\ request = NoRequest
    /\ store = NoStore
    /\ module = NoModule
    /\ route = NoRoute

NextData ==
    \E activity \in ActivityNames :
        \/ \E failure \in ChaosFailures[processEnv] : ActivityFails(activity, failure)
        \/ \E a \in ActivityArguments[activity] : ActivityRuns(activity, a)

SpecData == InitData /\ [][NextData]_vars

\* ------------------------------- temporal/client.ts, getTemporalClient

Callers == 1..MaxCallers

\* A caller enters getTemporalClient: with client set it returns it at once,
\* with client null it starts Connection.connect and waits.
GetClientEnter(c) ==
    /\ module.callers[c].pc = "idle"
    /\ module.callers[c].calls < MaxCalls
    /\ module' = [ module EXCEPT
          !.callers[c] =
              IF module.client # 0
              THEN [ pc |-> "returned", got |-> module.client, calls |-> @.calls + 1 ]
              ELSE [ pc |-> "connecting", got |-> 0, calls |-> @.calls + 1 ] ]
    /\ UNCHANGED << policy, processEnv, tasks, slots, nextUuid, chaosCall, request, store, route >>

\* Connection.connect resolves for a waiting caller: the connection exists,
\* the caller makes a Client of it, assigns it to client and returns client.
ConnectResolves(c) ==
    /\ module.callers[c].pc = "connecting"
    /\ module' = [ module EXCEPT
          !.connections = @ + 1,
          !.clients = @ + 1,
          !.client = module.clients + 1,
          !.callers[c] = [ @ EXCEPT !.pc = "returned", !.got = module.clients + 1 ] ]
    /\ UNCHANGED << policy, processEnv, tasks, slots, nextUuid, chaosCall, request, store, route >>

\* Connection.connect rejects: the caller's promise rejects, client is as it was.
ConnectRejects(c) ==
    /\ module.callers[c].pc = "connecting"
    /\ module' = [ module EXCEPT !.callers[c] = [ @ EXCEPT !.pc = "rejected" ] ]
    /\ UNCHANGED << policy, processEnv, tasks, slots, nextUuid, chaosCall, request, store, route >>

\* The caller is done with this call and may call again.
CallerDone(c) ==
    /\ module.callers[c].pc \in { "returned", "rejected" }
    /\ module.callers[c].calls < MaxCalls
    /\ module' = [ module EXCEPT !.callers[c] = [ @ EXCEPT !.pc = "idle" ] ]
    /\ UNCHANGED << policy, processEnv, tasks, slots, nextUuid, chaosCall, request, store, route >>

InitClient ==
    /\ policy = ConfiguredPolicy
    /\ processEnv \in Envs
    /\ tasks = << >>
    /\ slots = [ s \in Slots |-> 0 ]
    /\ nextUuid = 0
    /\ chaosCall = NoCall
    /\ request = NoRequest
    /\ store = NoStore
    /\ module = NoModule
    /\ route = NoRoute

NextClient ==
    \E c \in Callers :
        \/ GetClientEnter(c)
        \/ ConnectResolves(c)
        \/ ConnectRejects(c)
        \/ CallerDone(c)

SpecClient == InitClient /\ [][NextClient]_vars

\* ------------------------------------------------------------ index.ts

\* OP_ISSUER and API_AUDIENCE with their defaults (index.ts:33-34).
ISSUER == "https://id.localtest.me"
AUDIENCE == "api://my-api"

\* The scope of the commented-out check for /accounts (index.ts:126-131).
RequiredScope == "accounts:read"

\* Access tokens a client may send: compact or not, signed by a key of the
\* JWKS or not, expired or not, with an issuer, an audience and scopes.
Tokens ==
    { [ compact |-> c, signed |-> sg, expired |-> ex, iss |-> i, aud |-> a,
        scope |-> sc ] :
        c \in BOOLEAN, sg \in BOOLEAN, ex \in BOOLEAN,
        i \in { ISSUER, "https://elsewhere.example" },
        a \in { AUDIENCE, "api://other" },
        sc \in { { "openid", "accounts:read" }, { "openid" } } }

PublicPaths == { "/public/health", "/public/other" }

\* The paths of the two routers this model follows, mounted at /api/fdx/v6.
DataPaths == { "/api/fdx/v6/customers/current", "/api/fdx/v6/accounts" }

Paths == PublicPaths \cup DataPaths \cup { "/api/fdx/v6/nowhere" }

\* auth.startsWith( "Bearer " ) ? auth.slice( 7 ) : ""
BearerToken(authorization) ==
    IF authorization.scheme = "Bearer" THEN authorization.credentials ELSE NoToken

\* jwtVerify( token, JWKS, { issuer, audience } ): the payload when the token
\* is a compact JWS signed by a key of the JWKS, not expired, and issued by
\* `issuer` for `audience`; an exception otherwise.
jwtVerify(token, issuer, audience) ==
    IF /\ token.compact
       /\ token.signed
       /\ ~token.expired
       /\ token.iss = issuer
       /\ token.aud = audience
    THEN [ ok |-> TRUE,
           payload |-> [ iss |-> token.iss, aud |-> token.aud, scope |-> token.scope ] ]
    ELSE [ ok |-> FALSE, payload |-> NoUser ]

\* Values of the Authorization header: absent, another scheme, "Bearer "
\* with nothing after it, "Bearer " followed by a token.
AuthorizationHeaders ==
    { NoAuthorization,
      [ scheme |-> "Basic", credentials |-> CHOOSE t \in Tokens : jwtVerify(t, ISSUER, AUDIENCE).ok ],
      [ scheme |-> "Bearer", credentials |-> NoToken ] }
    \cup { [ scheme |-> "Bearer", credentials |-> t ] : t \in Tokens }

Response(status, body) == [ status |-> status, body |-> body ]

\* A request arrives.
Receive(path, authorization) ==
    /\ request.pc = "idle"
    /\ request' = [ NoRequest EXCEPT !.pc = "auth", !.path = path,
                                     !.authorization = authorization ]
    /\ UNCHANGED << policy, processEnv, tasks, slots, nextUuid, chaosCall, store, module, route >>

\* req.path.startsWith( "/public" )
StartsWithPublic(path) == path \in PublicPaths

\* The auth middleware (index.ts:49-116): requests under /public go on; a
\* request without a bearer token is answered 401; a token jwtVerify rejects
\* is answered 401; otherwise the payload becomes req.user and the request
\* goes on.
AuthMiddleware ==
    /\ request.pc = "auth"
    /\ LET token == BearerToken(request.authorization)
       IN  IF StartsWithPublic(request.path)
           THEN request' = [ request EXCEPT !.pc = "route" ]
           ELSE IF token = NoToken
           THEN request' = [ request EXCEPT
                               !.pc = "responded",
                               !.sent = Append(@, Response(401, "Authentication required")) ]
           ELSE IF jwtVerify(token, ISSUER, AUDIENCE).ok
           THEN request' = [ request EXCEPT
                               !.pc = "route",
                               !.token = token,
                               !.user = jwtVerify(token, ISSUER, AUDIENCE).payload ]
           ELSE request' = [ request EXCEPT
                               !.pc = "responded",
                               !.token = token,
                               !.sent = Append(@, Response(401, "Authentication failed")) ]
    /\ UNCHANGED << policy, processEnv, tasks, slots, nextUuid, chaosCall, store, module, route >>

\* Express finds the handler of the path (index.ts:118-139): the health
\* check, a route of one of the routers, or the 404 handler.
Route ==
    /\ request.pc = "route"
    /\ IF request.path = "/public/health"
       THEN request' = [ request EXCEPT
                           !.pc = "responded",
                           !.sent = Append(@, Response(200, "ok")) ]
       ELSE IF request.path \in DataPaths
       THEN request' = [ request EXCEPT !.pc = "handler", !.handler = request.path ]
       ELSE request' = [ request EXCEPT
                           !.pc = "responded",
                           !.sent = Append(@, Response(404, "not_found")) ]
    /\ UNCHANGED << policy, processEnv, tasks, slots, nextUuid, chaosCall, store, module, route >>

\* What the workflow a route awaits can give it: a value, null, a failure.
FetchOutcomes(path) ==
    IF path = "/api/fdx/v6/customers/current"
    THEN { "value", "null", "failure" }
    ELSE { "value", "failure" }

\* The route handlers GET /customers/current and GET /accounts, with the
\* outcome of the workflow they await: the data with 200, 404 for null, and
\* 500 from their catch block.
DataHandler(outcome) ==
    /\ request.pc = "handler"
    /\ outcome \in FetchOutcomes(request.path)
    /\ request' = [ request EXCEPT
          !.pc = "responded",
          !.sent = Append(@,
              IF outcome = "value" THEN Response(200, "data")
              ELSE IF outcome = "null" THEN Response(404, "not found")
              ELSE Response(500, "Internal server error")) ]
    /\ UNCHANGED << policy, processEnv, tasks, slots, nextUuid, chaosCall, store, module, route >>

\* The response is out and the next request can come.
Respond ==
    /\ request.pc = "responded"
    /\ request' = NoRequest
    /\ UNCHANGED << policy, processEnv, tasks, slots, nextUuid, chaosCall, store, module, route >>

\* new ChaosError( errorType, message, statusCode, retryable ) (chaos.ts:20-33).
ChaosError(errorType, message, statusCode, retryable) ==
    [ class |-> "ChaosError", errorType |-> errorType, message |-> message,
      statusCode |-> statusCode, retryable |-> retryable ]

\* The ChaosError of a kind, made of its errorConfigs entry.
ChaosErrorOf(errorType) ==
    ChaosError(errorType, errorConfigs[errorType].message,
               errorConfigs[errorType].statusCode,
               errorConfigs[errorType].retryable)

\* Errors the global error handler may be given: the ChaosError of each kind,
\* an error with a statusCode property (a body parser error), an error without.
HandledErrors ==
    { ChaosErrorOf(k) : k \in ChaosErrorType }
    \cup { [ class |-> "SyntaxError", errorType |-> "", message |-> "Unexpected token",
             statusCode |-> 400, retryable |-> FALSE ],
           [ class |-> "Error", errorType |-> "", message |-> "boom",
             statusCode |-> 0, retryable |-> FALSE ] }

\* (variant) an error handler that answers every error with 500
GlobalErrorHandlerSanitizing ==
    /\ request.pc = "error"
    /\ request' = [ request EXCEPT
          !.pc = "responded",
          !.sent = Append(@, Response(500, << "sanitized" >>)) ]
    /\ UNCHANGED << policy, processEnv, tasks, slots, nextUuid, chaosCall, store, module, route >>

\* The global error handler (index.ts:143-159): a ChaosError is answered with
\* its statusCode and { error, message, retryable }; any other error with
\* its statusCode property if it has one, else 500, and the sanitized error.
GlobalErrorHandler ==
    /\ request.pc = "error"
    /\ request' = [ request EXCEPT
          !.pc = "responded",
          !.sent = Append(@,
              IF request.error.class = "ChaosError"
              THEN Response(request.error.statusCode,
                            << request.error.errorType, request.error.message,
                               request.error.retryable >>)
              ELSE Response(IF request.error.statusCode # 0
                            THEN request.error.statusCode ELSE 500,
                            << "sanitized" >>)) ]
    /\ UNCHANGED << policy, processEnv, tasks, slots, nextUuid, chaosCall, store, module, route >>

\* The error handler on its own: it is given an error for a request.
InitErrorHandler ==
    /\ policy = ConfiguredPolicy
    /\ processEnv \in Envs
    /\ tasks = << >>
    /\ slots = [ s \in Slots |-> 0 ]
    /\ nextUuid = 0
    /\ chaosCall = NoCall
    /\ store = NoStore
    /\ module = NoModule
    /\ route = NoRoute
    /\ \E path \in Paths, error \in HandledErrors :
          request = [ NoRequest EXCEPT !.pc = "error", !.path = path,
                                       !.error = error ]

NextErrorHandler ==
    \/ GlobalErrorHandler
    \/ Respond

SpecErrorHandler == InitErrorHandler /\ [][NextErrorHandler]_vars

InitApi ==
    /\ policy = ConfiguredPolicy
    /\ processEnv \in Envs
    /\ tasks = << >>
    /\ slots = [ s \in Slots |-> 0 ]
    /\ nextUuid = 0
    /\ chaosCall = NoCall
    /\ store = NoStore
    /\ module = NoModule
    /\ route = NoRoute
    /\ request = NoRequest

NextApi ==
    \/ \E path \in Paths, authorization \in AuthorizationHeaders :
          Receive(path, authorization)
    \/ AuthMiddleware
    \/ Route
    \/ \E outcome \in { "value", "null", "failure" } : DataHandler(outcome)
    \/ Respond

SpecApi == InitApi /\ [][NextApi]_vars

\* ----------------------------- routes/customers.ts, routes/accounts.ts

\* The routes, by what follows /api/fdx/v6/ with the parameters left out.
SubResources ==
    { "contact", "statements", "statement", "transactions", "payment-networks",
      "asset-transfer-networks" }
Paginated ==
    { "accounts", "statements", "transactions", "payment-networks",
      "asset-transfer-networks" }
Dated == { "statements", "transactions" }
Endpoints == SubResources \cup { "customers/current", "accounts", "account" }

\* The activity behind the fetch function a route awaits for its data
\* (fetchX starts the workflow getXWorkflow, which calls the activity getX).
EndpointActivity(endpoint) ==
    CASE endpoint = "customers/current" -> "getCurrentCustomer"
      [] endpoint = "accounts" -> "getAccounts"
      [] endpoint = "account" -> "getAccountById"
      [] endpoint = "contact" -> "getAccountContactById"
      [] endpoint = "statements" -> "getAccountStatements"
      [] endpoint = "statement" -> "getAccountStatementById"
      [] endpoint = "transactions" -> "getAccountTransactions"
      [] endpoint = "payment-networks" -> "getPaymentNetworks"
      [] endpoint = "asset-transfer-networks" -> "getAssetTransferNetworks"

\* parseInt( text ) of a query parameter that is absent or no number.
NotANumber == -1000

\* The limit of a request that names none.
DefaultLimit == 100

\* parseInt( text ) || fallback: NaN and 0 are falsy.
ParseIntOr(n, fallback) == IF n = NotANumber \/ n = 0 THEN fallback ELSE n

\* isValidDate of utils/validation.js: "" (no date given) and a string that
\* parses to a date are valid.
isValidDate(d) == d # InvalidDate

\* startTime && endTime && new Date( startTime ) > new Date( endTime )
StartAfterEnd(startTime, endTime) ==
    startTime # Unset /\ endTime # Unset /\ startTime > endTime

\* The terminal failures executeWorkflow can reject with: an injected failure
\* of each kind, the TypeError of an empty list of kinds, an activity timeout.
TerminalFailures ==
    { Throw(k, NotRetryable(k), errorConfigs[k].message) : k \in ChaosErrorType }
    \cup { Throw("TypeError", FALSE, "Cannot read properties of undefined"),
           TimeoutFailure }

\* How an awaited fetch ends: NoThrow stands for resolving with the result.
FetchEnds == { NoThrow } \cup TerminalFailures

\* The body of a response, one shape for all: the error text and code of an
\* error answer, the items under their field and the page of a data answer.
Body(code, error, field, items, hasMore, nextOffset) ==
    [ code |-> code, error |-> error, field |-> field, items |-> items,
      hasMore |-> hasMore, nextOffset |-> nextOffset ]

InternalServerError == Response(500, Body(0, "Internal server error", "", << >>, FALSE, 0))

AccountNotFound ==
    Response(404, Body(701, "An account with the provided account ID could not be found",
                       "", << >>, FALSE, 0))

\* The 404 of a route whose own data came back null.
DataNotFound(endpoint) ==
    Response(404,
        Body(IF endpoint = "account" THEN 701 ELSE 601,
             CASE endpoint = "customers/current" ->
                      "A customer with the provided customer ID could not be found"
               [] endpoint = "statement" ->
                      "Statement not found for the provided accountId/statementId"
               [] OTHER -> "An account with the provided account ID could not be found",
             "", << >>, FALSE, 0))

InvalidDateFormat ==
    Response(400, Body(0, "Invalid date format for startTime or endTime", "", << >>, FALSE, 0))

StartNotBeforeEnd ==
    Response(400, Body(0, "startTime must be before or equal to endTime", "", << >>, FALSE, 0))

\* (variant) a next page offered up to and including the last item
PageOfInclusive(offset, limit, result) ==
    LET hasMore == offset + limit <= result.total
    IN  Response(200, Body(0, "", result.field, result.items, hasMore,
                           IF hasMore THEN offset + limit ELSE 0))

\* const hasMore = offset + limit < result.total;
\* const page = hasMore ? { nextOffset: String( offset + limit ) } : {};
\* (the text of nextOffset is the decimal of an integer, and parseInt of the
\* next request reads the same integer back)
PageOf(offset, limit, result) ==
    LET hasMore == offset + limit < result.total
    IN  Response(200, Body(0, "", result.field, result.items, hasMore,
                           IF hasMore THEN offset + limit ELSE 0))

\* The 200 of a route that answers with one object (or the PDF of a statement).
ObjectOf(result) == Response(200, Body(0, "", result.field, result.items, FALSE, 0))

\* Query strings and path parameters the routes are asked with; offset and
\* limit are what parseInt makes of the text.
QueryOffsets == { NotANumber } \cup (-1..MaxOffset)
QueryLimits == { NotANumber } \cup (-1..MaxLimit)

QueriesOf(endpoint) ==
    CASE endpoint = "customers/current" -> { NoArguments }
      [] endpoint \in { "account", "contact" } ->
            { [ NoArguments EXCEPT !.accountId = a ] : a \in AccountIds }
      [] endpoint = "statement" ->
            { [ NoArguments EXCEPT !.accountId = a, !.statementId = st ] :
                a \in AccountIds, st \in { "s1", "s9" } }
      [] endpoint = "accounts" ->
            { [ NoArguments EXCEPT !.offset = o, !.limit = l ] :
                o \in QueryOffsets, l \in QueryLimits }
      [] endpoint \in Dated ->
            { [ NoArguments EXCEPT !.accountId = a, !.offset = o, !.limit = l,
                                   !.startTime = st, !.endTime = en ] :
                a \in AccountIds, o \in { NotANumber, 1 }, l \in { NotANumber, 1, 2 },
                st \in DateArgs, en \in DateArgs }
      [] OTHER ->
            { [ NoArguments EXCEPT !.accountId = a, !.offset = o, !.limit = l ] :
                a \in AccountIds, o \in QueryOffsets, l \in QueryLimits }

Queries == [ endpoint \in Endpoints |-> QueriesOf(endpoint) ]

\* The handler up to its first await: the paginated routes read offset and
\* limit, the routes under an account start the account lookup of
\* verifyAccount, the others start the fetch of their data.
Enter(endpoint, a, pages, collected) ==
    [ NoRoute EXCEPT
        !.pc = IF endpoint \in SubResources THEN "lookup" ELSE "data",
        !.endpoint = endpoint,
        !.arguments =
            IF endpoint \in Paginated
            THEN [ a EXCEPT !.offset = ParseIntOr(a.offset, 0),
                            !.limit = ParseIntOr(a.limit, DefaultLimit) ]
            ELSE a,
        !.submitted = IF endpoint \in SubResources
                      THEN << "getAccountById" >>
                      ELSE << EndpointActivity(endpoint) >>,
        !.pages = pages,
        !.collected = collected ]

\* A request reaches its route.
RouteArrive(endpoint, q) ==
    /\ route.pc = "idle"
    /\ q \in Queries[endpoint]
    /\ route' = Enter(endpoint, q, 1, << >>)
    /\ UNCHANGED << policy, processEnv, tasks, slots, nextUuid, chaosCall, request, store, module >>

\* The client asks for the next page: the same request with the nextOffset of
\* the answer as offset.
RouteFollow ==
    /\ route.pc = "done"
    /\ route.pages < MaxPages
    /\ route.sent[Len(route.sent)].body.hasMore
    /\ route' = Enter(route.endpoint,
                      [ route.arguments EXCEPT
                          !.offset = route.sent[Len(route.sent)].body.nextOffset ],
                      route.pages + 1, route.collected)
    /\ UNCHANGED << policy, processEnv, tasks, slots, nextUuid, chaosCall, request, store, module >>

\* The answer sent and the handler at its end.
Answer(r, response) == [ r EXCEPT !.pc = "done", !.sent = Append(@, response) ]

\* (variant) a route that passes the failure of its data fetch on to the
\* global error handler, which answers it by kind
DataReturnsUncaught(ends) ==
    /\ route.pc = "data"
    /\ ends \in FetchEnds
    /\ LET result == CallActivity(EndpointActivity(route.endpoint), store.data,
                                  route.arguments).result
       IN  route' =
             IF ends.thrown
             THEN Answer([ route EXCEPT !.failure = ends, !.escaped = TRUE ],
                         Response(IF ends.type \in ChaosErrorType
                                  THEN errorConfigs[ends.type].statusCode ELSE 500,
                                  Body(0, ends.type, "", << >>, ~ends.nonRetryable, 0)))
             ELSE IF route.endpoint \in Paginated
             THEN Answer([ route EXCEPT !.result = result,
                                        !.collected = @ \o result.items ],
                         PageOf(route.arguments.offset, route.arguments.limit, result))
             ELSE IF result.items = << >>
             THEN Answer([ route EXCEPT !.result = result ], DataNotFound(route.endpoint))
             ELSE Answer([ route EXCEPT !.result = result ], ObjectOf(result))
    /\ UNCHANGED << policy, processEnv, tasks, slots, nextUuid, chaosCall, request, store, module >>

\* (variant) verifyAccount leaving the missing account to the next fetch
LookupReturnsLenient(ends) ==
    /\ route.pc = "lookup"
    /\ ends \in FetchEnds
    /\ LET a == route.arguments
       IN  route' =
             IF ends.thrown
             THEN Answer([ route EXCEPT !.failure = ends ], InternalServerError)
             ELSE IF route.endpoint \in Dated
                     /\ (~isValidDate(a.startTime) \/ ~isValidDate(a.endTime))
             THEN Answer(route, InvalidDateFormat)
             ELSE IF route.endpoint \in Dated /\ StartAfterEnd(a.startTime, a.endTime)
             THEN Answer(route, StartNotBeforeEnd)
             ELSE [ route EXCEPT
                      !.pc = "data",
                      !.submitted = Append(@, EndpointActivity(route.endpoint)) ]
    /\ UNCHANGED << policy, processEnv, tasks, slots, nextUuid, chaosCall, request, store, module >>

\* (variant) a route that leaves the dates to the activity
LookupReturnsUnvalidated(ends) ==
    /\ route.pc = "lookup"
    /\ ends \in FetchEnds
    /\ LET a == route.arguments
           account == CallActivity("getAccountById", store.data, a).result.items
       IN  route' =
             IF ends.thrown
             THEN Answer([ route EXCEPT !.failure = ends ], InternalServerError)
             ELSE IF account = << >>
             THEN Answer(route, AccountNotFound)
             ELSE [ route EXCEPT
                      !.pc = "data",
                      !.submitted = Append(@, EndpointActivity(route.endpoint)) ]
    /\ UNCHANGED << policy, processEnv, tasks, slots, nextUuid, chaosCall, request, store, module >>

\* (variant) verifyAccount answering, and its route going on regardless
LookupReturnsAndGoesOn(ends) ==
    /\ route.pc = "lookup"
    /\ ends \in FetchEnds
    /\ LET a == route.arguments
           account == CallActivity("getAccountById", store.data, a).result.items
           goesOn(r) == [ r EXCEPT !.pc = "data",
                            !.submitted = Append(@, EndpointActivity(route.endpoint)) ]
       IN  route' =
             IF ends.thrown
             THEN goesOn(Answer([ route EXCEPT !.failure = ends ], InternalServerError))
             ELSE IF account = << >>
             THEN goesOn(Answer(route, AccountNotFound))
             ELSE goesOn(route)
    /\ UNCHANGED << policy, processEnv, tasks, slots, nextUuid, chaosCall, request, store, module >>

\* The account lookup of verifyAccount ends, and the route runs on to its
\* next await or to its answer: 500 when the lookup failed, 404 when it
\* found no account; then, on the routes with dates, 400 for a date that is
\* none and for a start after the end; else the fetch of the data starts.
LookupReturns(ends) ==
    /\ route.pc = "lookup"
    /\ ends \in FetchEnds
    /\ LET a == route.arguments
           account == CallActivity("getAccountById", store.data, a).result.items
       IN  route' =
             IF ends.thrown
             THEN Answer([ route EXCEPT !.failure = ends ], InternalServerError)
             ELSE IF account = << >>
             THEN Answer(route, AccountNotFound)
             ELSE IF route.endpoint \in Dated
                     /\ (~isValidDate(a.startTime) \/ ~isValidDate(a.endTime))
             THEN Answer(route, InvalidDateFormat)
             ELSE IF route.endpoint \in Dated /\ StartAfterEnd(a.startTime, a.endTime)
             THEN Answer(route, StartNotBeforeEnd)
             ELSE [ route EXCEPT
                      !.pc = "data",
                      !.submitted = Append(@, EndpointActivity(route.endpoint)) ]
    /\ UNCHANGED << policy, processEnv, tasks, slots, nextUuid, chaosCall, request, store, module >>

\* The fetch of the data ends: 500 from the catch block when it failed; the
\* page with its items on a paginated route; else 404 for null and the object
\* with 200.
DataReturns(ends) ==
    /\ route.pc = "data"
    /\ ends \in FetchEnds
    /\ LET result == CallActivity(EndpointActivity(route.endpoint), store.data,
                                  route.arguments).result
       IN  route' =
             IF ends.thrown
             THEN Answer([ route EXCEPT !.failure = ends ], InternalServerError)
             ELSE IF route.endpoint \in Paginated
             THEN Answer([ route EXCEPT !.result = result,
                                        !.collected = @ \o result.items ],
                         PageOf(route.arguments.offset, route.arguments.limit, result))
             ELSE IF result.items = << >>
             THEN Answer([ route EXCEPT !.result = result ], DataNotFound(route.endpoint))
             ELSE Answer([ route EXCEPT !.result = result ], ObjectOf(result))
    /\ UNCHANGED << policy, processEnv, tasks, slots, nextUuid, chaosCall, request, store, module >>

\* The handler has returned; the next request can come.
RouteRespond ==
    /\ route.pc = "done"
    /\ route' = NoRoute
    /\ UNCHANGED << policy, processEnv, tasks, slots, nextUuid, chaosCall, request, store, module >>

InitRoutes ==
    /\ policy = ConfiguredPolicy
    /\ processEnv \in Envs
    /\ tasks = << >>
    /\ slots = [ s \in Slots |-> 0 ]
    /\ nextUuid = 0
    /\ chaosCall = NoCall
    /\ request = NoRequest
    /\ store = NoStore
    /\ module = NoModule
    /\ route = NoRoute

NextRoutes ==
    \/ \E endpoint \in Endpoints : \E q \in Queries[endpoint] : RouteArrive(endpoint, q)
    \/ RouteFollow
    \/ \E ends \in FetchEnds : LookupReturns(ends)
    \/ \E ends \in FetchEnds : DataReturns(ends)
    \/ RouteRespond

SpecRoutes == InitRoutes /\ [][NextRoutes]_vars

\* ------------------------------------------------------------ properties

TaskIds == 1..Len(tasks)

\* The environment in which every activity call fails with DATABASE_TIMEOUT.
AlwaysDatabaseTimeout ==
    [ CHAOS_ENABLED |-> "true", CHAOS_ERROR_RATE |-> "1",
      CHAOS_ERROR_TYPES |-> << "DATABASE_TIMEOUT" >>, CHAOS_ADD_LATENCY |-> "" ]

\* The environment in which a call may fail with NETWORK_TIMEOUT,
\* NON_RETRYABLE_ERROR or INTERNAL_SERVER_ERROR, or go through.
SometimesFailing ==
    [ CHAOS_ENABLED |-> "true", CHAOS_ERROR_RATE |-> "0.3",
      CHAOS_ERROR_TYPES |-> << "network_timeout", " NON_RETRYABLE_ERROR",
                               " internal_server_error" >>,
      CHAOS_ADD_LATENCY |-> "true" ]

\* C1: under every retry policy and whatever failures the activity produces,
\* the number of attempts started for a task never exceeds maximumAttempts.
C1_AttemptsWithinMaximum ==
    \A t \in TaskIds :
        /\ tasks[t].started <= policy.maximumAttempts
        /\ tasks[t].attempt <= policy.maximumAttempts

\* C1 witness: under the configured policy a task has used all 10 attempts on
\* retryable failures.
C1_Witness ==
    \E t \in TaskIds :
        /\ policy = ConfiguredPolicy
        /\ tasks[t].started = 10
        /\ tasks[t].status = "Failed"
        /\ tasks[t].result.kind = "DATABASE_TIMEOUT"

ConfiguredDelays == << 500, 1000, 2000, 4000, 5000, 5000, 5000, 5000, 5000 >>

C3_BackoffDelays ==
    \A t \in TaskIds :
        /\ Len(tasks[t].delays) = tasks[t].attempt - 1
        /\ \A n \in 2..tasks[t].attempt :
              /\ tasks[t].delays[n - 1] =
                    Min(policy.initialInterval * Pow(policy.backoffCoefficient, n - 2),
                        policy.maximumInterval)
              /\ tasks[t].delays[n - 1] <= policy.maximumInterval
              /\ n > 2 => tasks[t].delays[n - 1] >= tasks[t].delays[n - 2]

\* C3 witness: a task has waited both uncapped delays and delays cut to
\* maximumInterval (the fifth retry would be 8000 ms uncapped).
C3_Witness ==
    \E t \in TaskIds :
        /\ Len(tasks[t].delays) >= 5
        /\ tasks[t].delays[3] = 2000
        /\ tasks[t].delays[5] = 5000
        /\ tasks[t].status = "Running"

\* Kinds that are not retried: those the taxonomy marks non-retryable and
\* those the policy lists.
NonRetryableKind(k) ==
    \/ k \in { "INTERNAL_SERVER_ERROR", "NON_RETRYABLE_ERROR" }
    \/ k \in policy.nonRetryableErrorTypes

\* C4: an attempt that fails with a non-retryable kind (of the taxonomy or
\* listed in the policy) ends the task at once: the task is Failed with that
\* kind, no backoff delay follows the attempt and no further attempt is made,
\* so that a task whose first attempt fails this way has made exactly 1
\* attempt, whatever maximumAttempts is.
C4_NonRetryableEndsTask ==
    \A t \in TaskIds :
        NonRetryableKind(tasks[t].lastFailure) =>
            /\ tasks[t].status = "Failed"
            /\ tasks[t].result.kind = tasks[t].lastFailure
            /\ tasks[t].started = tasks[t].attempt
            /\ Len(tasks[t].delays) = tasks[t].started - 1
            /\ \A s \in Slots : slots[s] # t

\* C4 witness: with 10 attempts allowed, a task failed on NON_RETRYABLE_ERROR
\* at its first attempt.
C4_Witness ==
    \E t \in TaskIds :
        /\ policy.maximumAttempts = 10
        /\ tasks[t].status = "Failed"
        /\ tasks[t].result.kind = "NON_RETRYABLE_ERROR"
        /\ tasks[t].started = 1
        /\ tasks[t].delays = << >>

\* C5: a task whose activity succeeds at some attempt, after retryable
\* failures of the attempts before it, gives its caller the value of that
\* attempt: the caller is answered only once the task is Succeeded or Failed,
\* a failure is raised to it only when the task is Failed, and for a
\* Succeeded task it gets the activity's value.
C5_RetriesHiddenFromCaller ==
    \A t \in TaskIds :
        /\ tasks[t].caller # "waiting" => Terminal(tasks[t])
        /\ tasks[t].caller = "raised" => tasks[t].status = "Failed"
        /\ tasks[t].status = "Succeeded" =>
              tasks[t].result =
                 Success(ActivityBody(WorkflowActivity[tasks[t].workflowName]))
        /\ (tasks[t].status = "Succeeded" /\ tasks[t].caller # "waiting") =>
              /\ tasks[t].caller = "returned"
              /\ tasks[t].observed =
                    Success(ActivityBody(WorkflowActivity[tasks[t].workflowName]))

\* C5 witness: two NETWORK_TIMEOUT failures, success at attempt 3, and the
\* caller has its value.
C5_Witness ==
    \E t \in TaskIds :
        /\ processEnv = SometimesFailing
        /\ policy.maximumAttempts = 10
        /\ tasks[t].status = "Succeeded"
        /\ tasks[t].started = 3
        /\ Len(tasks[t].delays) = 2
        /\ tasks[t].caller = "returned"

\* C6: an exception that is none of the nine kinds (the TypeError thrown in the
\* injector when no enabled kind is valid) is handled as the non-retryable
\* INTERNAL_SERVER_ERROR: the task is Failed after that attempt and the
\* exception is never retried.
C6_UnclassifiedIsTerminal ==
    \A t \in TaskIds :
        (tasks[t].lastFailure \notin ChaosErrorType \cup { "none" }) =>
            tasks[t].status = "Failed"

\* C7: at most one attempt of a task is in flight: a task is held by at most
\* one slot, and exactly while it is Running; the attempts started never
\* outnumber the attempt counter, which only moves once the outcome of the
\* running attempt is recorded.
C7_OneAttemptInFlight ==
    \A t \in TaskIds :
        /\ Cardinality({ s \in Slots : slots[s] = t }) <= 1
        /\ (tasks[t].status = "Running") <=> (\E s \in Slots : slots[s] = t)
        /\ tasks[t].status = "Running" => tasks[t].started = tasks[t].attempt
        /\ tasks[t].status \in { "Pending", "Backoff" } =>
              tasks[t].started = tasks[t].attempt - 1
        /\ Terminal(tasks[t]) => tasks[t].started = tasks[t].attempt

\* C7 witness: two slots run attempts of two tasks at once, one of them a
\* retry.
C7_Witness ==
    \E s1, s2 \in Slots :
        /\ s1 # s2
        /\ slots[s1] # 0
        /\ slots[s2] # 0
        /\ slots[s1] # slots[s2]
        /\ tasks[slots[s1]].attempt >= 2

\* C8: every executeWorkflow call gives its task a workflowId that no other
\* task ever submitted has, also when the workflow name and arguments are those
\* of an earlier call.
C8_WorkflowIdsDiffer ==
    \A t1, t2 \in TaskIds :
        t1 # t2 => tasks[t1].workflowId # tasks[t2].workflowId

\* C8 witness: the same workflow was started twice.
C8_Witness ==
    \E t1, t2 \in TaskIds :
        /\ t1 # t2
        /\ tasks[t1].workflowName = tasks[t2].workflowName
        /\ tasks[t1].status = "Succeeded"

\* C10: once a task is Succeeded or Failed, its status, its result, its attempt
\* count and its delays stay as they are, and no slot takes an attempt of it.
C10_TerminalIsAbsorbing ==
    [][ \A t \in TaskIds :
            Terminal(tasks[t]) =>
                /\ tasks'[t].status = tasks[t].status
                /\ tasks'[t].result = tasks[t].result
                /\ tasks'[t].attempt = tasks[t].attempt
                /\ tasks'[t].started = tasks[t].started
                /\ tasks'[t].delays = tasks[t].delays
                /\ \A s \in Slots : slots'[s] # t ]_vars

\* C10 witness: a task succeeded after a retry and its caller was answered,
\* while another task is still being attempted.
C10_Witness ==
    \E t1, t2 \in TaskIds :
        /\ tasks[t1].status = "Succeeded"
        /\ tasks[t1].started >= 2
        /\ tasks[t1].caller = "returned"
        /\ tasks[t2].status = "Running"
        /\ tasks[t2].attempt >= 2

\* The injector's call is over and it was enabled.
ChaosDone == chaosCall.pc = "done" /\ getConfig(processEnv).enabled

\* C13: with the injector enabled and an error rate of 0, a finished call has
\* raised nothing, whatever Math.random() returned (a draw of 0 included).
C13_RateZeroNeverRaises ==
    (ChaosDone /\ getConfig(processEnv).errorRate = 0) =>
        ~chaosCall.failure.thrown

\* The failure of the finished call is one of the nine kinds, thrown with the
\* message errorConfigs gives that kind.
ClassifiedFailure(failure) ==
    /\ failure.thrown
    /\ failure.type \in ChaosErrorType
    /\ failure.message = errorConfigs[failure.type].message

\* C14: with the injector enabled and an error rate of 1, every finished call
\* has raised a failure of one of the nine kinds, whatever Math.random()
\* returned and whatever CHAOS_ERROR_TYPES lists.
C14_RateOneAlwaysRaises ==
    (ChaosDone /\ getConfig(processEnv).errorRate = 1000) =>
        ClassifiedFailure(chaosCall.failure)

\* CHAOS_ERROR_TYPES is set and none of its tokens is a kind.
EmptyConfiguredList ==
    /\ processEnv.CHAOS_ERROR_TYPES # << >>
    /\ Len(getConfig(processEnv).enabledErrorTypes) = 0

\* C16: when the enabled injector fires (the error-rate draw does not exceed
\* the rate) and the configured list of kinds is empty, the finished call has
\* raised one of the nine kinds with the message configured for it.
C16_EmptyListFallsBack ==
    (ChaosDone /\ EmptyConfiguredList
        /\ chaosCall.r1 <= getConfig(processEnv).errorRate) =>
        ClassifiedFailure(chaosCall.failure)

\* C15: with the injector disabled a call is a no-op, whatever the error rate,
\* the list of kinds and CHAOS_ADD_LATENCY are: the finished call has raised
\* nothing and waited for no latency, and maybeCauseChaos raises nothing on
\* any draw.
C15_DisabledIsNoOp ==
    (chaosCall.pc = "done" /\ ~getConfig(processEnv).enabled) =>
        /\ chaosCall.failure = NoThrow
        /\ chaosCall.latency = 0
        /\ \A r1 \in Draws, r2 \in IndexDraws :
              maybeCauseChaos(processEnv, chaosCall.operationName, r1, r2) = NoThrow

\* C15 witness: a disabled call ended with rate 1, latency switched on and
\* draws that would give latency and an error to an enabled injector.
C15_Witness ==
    /\ chaosCall.pc = "done"
    /\ ~getConfig(processEnv).enabled
    /\ getConfig(processEnv).errorRate = 1000
    /\ processEnv.CHAOS_ADD_LATENCY = "true"
    /\ processEnv.CHAOS_ERROR_TYPES = << "DATABASE_TIMEOUT" >>
    /\ chaosCall.r0 < 300
    /\ chaosCall.r3 > 0

\* C17: in maybeCauseChaosAsync the latency is decided and waited for before
\* the error-rate check, and the two do not influence each other: while the
\* error is undecided the latency is already final; the error is raised exactly
\* when the error-rate draw does not exceed the rate, with or without latency;
\* latency is there only when CHAOS_ADD_LATENCY is "true" and its own draw is
\* under 0.3, with or without an error.
C17_LatencyBeforeErrorIndependent ==
    /\ chaosCall.pc = "delayed" =>
          /\ chaosCall.failure = NoThrow
          /\ chaosCall.latency = extraLatency(processEnv, chaosCall.r0, chaosCall.r3)
    /\ ChaosDone =>
          /\ chaosCall.failure.thrown <=>
                chaosCall.r1 <= getConfig(processEnv).errorRate
          /\ chaosCall.latency =
                IF processEnv.CHAOS_ADD_LATENCY = "true" /\ chaosCall.r0 < 300
                THEN (chaosCall.r3 * 500) \div 1000
                ELSE 0

\* C17 witness: one call waited for latency and then raised an error.
C17_Witness ==
    /\ ChaosDone
    /\ chaosCall.latency > 0
    /\ chaosCall.failure.thrown
    /\ chaosCall.failure.type \in ChaosErrorType

\* C18: the operation name does not change what the injector does: with the
\* configuration and the draws of the finished call, a call under any other
\* operation name raises the same failure (or nothing) and waits for the same
\* latency.
C18_OperationNameIrrelevant ==
    ChaosDone =>
        \A otherName \in OperationNames :
            maybeCauseChaosAsync(processEnv, otherName, chaosCall.r0,
                                 chaosCall.r3, chaosCall.r1, chaosCall.r2)
              = [ latency |-> chaosCall.latency, failure |-> chaosCall.failure ]

\* C18 witness: a call under one operation name raised a kind after latency,
\* and there is another operation name to compare it with.
C18_Witness ==
    /\ ChaosDone
    /\ chaosCall.operationName = "getAccountById"
    /\ \E otherName \in OperationNames : otherName # chaosCall.operationName
    /\ chaosCall.failure.type = "NETWORK_TIMEOUT"
    /\ chaosCall.latency > 0

\* C12: a task waiting for its retry timer holds no slot: the busy slots are
\* exactly one per Running task.  While a task is in Backoff, any scheduled
\* attempt of another task can be taken by any idle slot at once, and any
\* running attempt of another task can end at once.
C12_BackoffHoldsNoSlot ==
    /\ \A s \in Slots : slots[s] # 0 =>
          /\ slots[s] \in TaskIds
          /\ tasks[slots[s]].status = "Running"
          /\ \A s2 \in Slots : slots[s2] = slots[s] => s2 = s
    /\ \A a \in TaskIds : tasks[a].status = "Backoff" =>
          /\ \A s \in Slots : slots[s] # a
          /\ \A b \in TaskIds, s \in Slots :
                (tasks[b].status = "Pending" /\ slots[s] = 0) =>
                    ENABLED ClaimAttempt(s, b)
          /\ \A s \in Slots : slots[s] # 0 =>
                ENABLED (\E outcome \in AllOutcomes : RunAttempt(s, outcome))

\* C12 witness: task 1 is waiting for its first retry and no slot is busy;
\* task 2, submitted after it, has run its only attempt and its caller has
\* the value, while task 1 is still waiting.
C12_Witness ==
    /\ Len(tasks) = 2
    /\ tasks[1].status = "Backoff"
    /\ tasks[1].started = 1
    /\ Len(tasks[1].delays) = 1
    /\ \A s \in Slots : slots[s] = 0
    /\ tasks[2].status = "Succeeded"
    /\ tasks[2].started = 1
    /\ tasks[2].caller = "returned"

\* C20: an attempt ended by the 30 s deadline is treated like any retryable
\* failure.  It is the one attempt that was started; if the policy has
\* attempts left the task goes to Backoff with the next attempt number and the
\* delay min(initialInterval * backoffCoefficient^(attempt-1), maximumInterval);
\* if it was attempt maximumAttempts the task is Failed with the timeout as
\* its result.
C20_TimeoutFollowsRetryPath ==
    [][ \A t \in TaskIds :
          (tasks[t].status = "Running" /\ tasks'[t].lastFailure = "TimeoutFailure") =>
              /\ tasks'[t].started = tasks[t].started
              /\ IF tasks[t].attempt < policy.maximumAttempts
                 THEN /\ tasks'[t].status = "Backoff"
                      /\ tasks'[t].attempt = tasks[t].attempt + 1
                      /\ tasks'[t].delays =
                            Append(tasks[t].delays,
                                   Min(policy.initialInterval *
                                         Pow(policy.backoffCoefficient, tasks[t].attempt - 1),
                                       policy.maximumInterval))
                      /\ tasks'[t].result = NoResult
                 ELSE /\ tasks'[t].status = "Failed"
                      /\ tasks'[t].attempt = tasks[t].attempt
                      /\ tasks'[t].delays = tasks[t].delays
                      /\ tasks'[t].result.tag = "Failure"
                      /\ tasks'[t].result.kind = "TimeoutFailure" ]_vars

\* C20 witness: a task whose attempts were retried with backoff ended Failed
\* on a timeout of its last attempt.
C20_Witness ==
    \E t \in TaskIds :
        /\ tasks[t].status = "Failed"
        /\ tasks[t].result.kind = "TimeoutFailure"
        /\ tasks[t].started = policy.maximumAttempts
        /\ Len(tasks[t].delays) >= 2

\* Every task submitted so far is closed and its caller is answered.
AllSettled ==
    \A t \in TaskIds :
        /\ Terminal(tasks[t])
        /\ tasks[t].caller \in { "returned", "raised" }

\* C11: under fair scheduling, with every attempt completing or being ended
\* by its deadline, every submitted task eventually is Succeeded or Failed and
\* its caller, blocked in handle.result(), eventually has the value or the
\* failure: at any moment, a later moment comes at which all tasks submitted
\* by then are closed and answered.
C11_EveryTaskCloses == []<>AllSettled

\* C11 witness: one task failed after its retries and its caller got the
\* failure, another succeeded after a retry and its caller got the value.
C11_Witness ==
    \E t1, t2 \in TaskIds :
        /\ tasks[t1].status = "Failed"
        /\ Len(tasks[t1].delays) >= 1
        /\ tasks[t1].caller = "raised"
        /\ tasks[t2].status = "Succeeded"
        /\ Len(tasks[t2].delays) >= 1
        /\ tasks[t2].caller = "returned"

\* C22: the failure raised to a caller carries kind, message and attemptsMade,
\* and attemptsMade is the number of attempts that were started.
C22_FailureCarriesAttempts ==
    \A t \in TaskIds :
        tasks[t].caller = "raised" =>
            /\ tasks[t].observed.kind = tasks[t].lastFailure
            /\ tasks[t].observed.message # ""
            /\ "attemptsMade" \in DOMAIN tasks[t].observed
            /\ tasks[t].observed.attemptsMade = tasks[t].started

\* C23: executeWorkflow starts one workflow per call and never starts it
\* again: the workflows started are as many as the calls made, and the only
\* thing that happens to a failed task whose caller still waits is that the
\* caller gets that failure, with no workflow started in the same step.
C23_DispatcherNeverRetries ==
    [][ /\ Len(tasks) = nextUuid
        /\ Len(tasks') = nextUuid'
        /\ \A t \in TaskIds :
              (tasks[t].status = "Failed" /\ tasks[t].caller = "waiting"
                  /\ tasks'[t] # tasks[t]) =>
                  /\ tasks'[t] = [ tasks[t] EXCEPT !.caller = "raised",
                                                   !.observed = tasks[t].result ]
                  /\ Len(tasks') = Len(tasks) ]_vars

\* C23 witness: a task failed at its last attempt, its caller has that
\* failure, and no workflow beyond the calls made exists.
C23_Witness ==
    \E t \in TaskIds :
        /\ tasks[t].status = "Failed"
        /\ tasks[t].started = policy.maximumAttempts
        /\ tasks[t].caller = "raised"
        /\ tasks[t].observed = tasks[t].result
        /\ Len(tasks) = 1
        /\ nextUuid = 1

\* C24: an unclassified exception (a TypeError) thrown by the attempt of one
\* task leaves every other task as it was, leaves every other slot with its
\* attempt, and frees the slot it ran in, which can take any attempt that is
\* waiting.
C24_DefectIsIsolated ==
    [][ \A s \in Slots :
          (/\ slots[s] # 0
           /\ tasks[slots[s]].status = "Running"
           /\ tasks'[slots[s]].status # "Running"
           /\ tasks'[slots[s]].lastFailure = "TypeError") =>
              /\ \A u \in TaskIds : u # slots[s] => tasks'[u] = tasks[u]
              /\ \A s2 \in Slots : s2 # s => slots'[s2] = slots[s2]
              /\ slots'[s] = 0
              /\ \A u \in TaskIds :
                    tasks'[u].status = "Pending" => Claimable(s, u)' ]_vars

\* C24 witness: the attempt of one task threw a TypeError while another task
\* is being attempted and a slot is free.
C24_Witness ==
    \E t1, t2 \in TaskIds, s \in Slots :
        /\ tasks[t1].lastFailure = "TypeError"
        /\ tasks[t1].status \in { "Backoff", "Failed" }
        /\ tasks[t2].status = "Running"
        /\ slots[s] = 0

\* C25: a data handler runs only for a request whose bearer token was
\* verified for the issuer and the audience and carries the scope the
\* endpoint requires.
C25_HandlerNeedsTokenAndScope ==
    request.handler \in DataPaths =>
        /\ BearerToken(request.authorization) # NoToken
        /\ jwtVerify(BearerToken(request.authorization), ISSUER, AUDIENCE).ok
        /\ request.user.iss = ISSUER
        /\ request.user.aud = AUDIENCE
        /\ RequiredScope \in request.user.scope

\* The kinds the taxonomy marks non-retryable.
NonRetryableKinds == { "INTERNAL_SERVER_ERROR", "NON_RETRYABLE_ERROR" }

\* C26: a failure of one of the nine kinds raised by the injector is
\* non-retryable exactly for INTERNAL_SERVER_ERROR and NON_RETRYABLE_ERROR and
\* retryable for the seven other kinds, and for every policy and attempt the
\* retry decision is the same whatever the message of the failure says.
C26_RetryableByKindOnly ==
    (ChaosDone /\ chaosCall.failure.type \in ChaosErrorType) =>
        /\ chaosCall.failure.nonRetryable <=>
              chaosCall.failure.type \in NonRetryableKinds
        /\ \A p \in Policies, attempt \in 1..2,
              message \in { "", "A non-retryable error occurred",
                            "Network request timed out" } :
              ShouldRetry(p, attempt, [ chaosCall.failure EXCEPT !.message = message ])
                = ShouldRetry(p, attempt, chaosCall.failure)

\* C26 witness: the injector raised INTERNAL_SERVER_ERROR, non-retryable.
C26_Witness ==
    /\ ChaosDone
    /\ chaosCall.failure.type = "INTERNAL_SERVER_ERROR"
    /\ chaosCall.failure.nonRetryable

\* The kinds CHAOS_ERROR_TYPES enables, as parseEnabledErrorTypes returns them.
EnabledKinds ==
    { getConfig(processEnv).enabledErrorTypes[i] :
        i \in 1..Len(getConfig(processEnv).enabledErrorTypes) }

\* C27: whatever the injector raises is one of the enabled kinds, which is
\* one of the nine kinds, and has the message configured for that kind.
C27_RaisedKindIsEnabled ==
    (ChaosDone /\ chaosCall.failure.thrown) =>
        /\ chaosCall.failure.type \in EnabledKinds
        /\ chaosCall.failure.type \in ChaosErrorType
        /\ chaosCall.failure.message = errorConfigs[chaosCall.failure.type].message

\* The transport status the specification gives each kind.
StatusOfKind ==
    [ DATABASE_CONNECTION        |-> 503,
      SERVICE_UNAVAILABLE        |-> 503,
      RESOURCE_EXHAUSTED         |-> 503,
      DATABASE_DEADLOCK          |-> 503,
      DATABASE_TIMEOUT           |-> 504,
      NETWORK_TIMEOUT            |-> 504,
      NETWORK_CONNECTION_REFUSED |-> 502,
      INTERNAL_SERVER_ERROR      |-> 500,
      NON_RETRYABLE_ERROR        |-> 500 ]

\* C28: the statusCode errorConfigs attaches to each kind is the status of
\* the mapping (503, 504, 502 or 500), and the global error handler answers
\* the ChaosError of a kind with that status and with one response.
C28_StatusOfKind ==
    /\ \A k \in ChaosErrorType : errorConfigs[k].statusCode = StatusOfKind[k]
    /\ (request.pc = "responded" /\ request.error.class = "ChaosError") =>
          /\ Len(request.sent) = 1
          /\ request.sent[1].status = StatusOfKind[request.error.errorType]
          /\ request.sent[1].body[1] = request.error.errorType

\* C28 witness: the handler has answered the ChaosError of
\* NETWORK_CONNECTION_REFUSED with 502.
C28_Witness ==
    /\ request.pc = "responded"
    /\ request.error = ChaosErrorOf("NETWORK_CONNECTION_REFUSED")
    /\ request.sent = << Response(502, << "NETWORK_CONNECTION_REFUSED",
                                          "Connection refused: upstream service unavailable",
                                          TRUE >>) >>

\* C29: no activity modifies the backing data sets (customers, accounts,
\* contacts, statements, transactions, networks): every step of every
\* activity, whether its injector raised or its body ran, leaves each of them
\* as it found it.
C29_ActivitiesOnlyRead == [][store'.data = store.data]_vars

\* A filter that dropped customers has run, and the customers are all there.
C29_Witness ==
    /\ store.activity = "getCustomers"
    /\ store.arguments.status = "active"
    /\ ~store.failure.thrown
    /\ Len(store.result.items) < Len(store.data.customers)
    /\ Len(store.result.items) > 0

\* C30: for every accountId, offset and limit, getAssetTransferNetworks
\* resolves with the same items and the same total as getPaymentNetworks on
\* the same arguments; only the name of the field holding the items differs.
C30_AssetTransferEqualsPayment ==
    (store.activity = "getAssetTransferNetworks" /\ ~store.failure.thrown) =>
        LET a == store.arguments
            payment == getPaymentNetworks(store.data, a.accountId, a.offset, a.limit).result
        IN  /\ store.result.items = payment.items
            /\ store.result.total = payment.total
            /\ store.result.field = "assetTransferNetworks"
            /\ payment.field = "paymentNetworks"

\* A page of asset transfer networks shorter than the list it was cut from.
C30_Witness ==
    /\ store.activity = "getAssetTransferNetworks"
    /\ ~store.failure.thrown
    /\ store.result.items # << >>
    /\ Len(store.result.items) < store.result.total

\* C31: getTemporalClient creates at most one connection and one Client for
\* the lifetime of the process and returns that same Client to every caller,
\* also when several callers enter before the first connection attempt has
\* completed.
C31_OneClientForAll ==
    /\ module.connections <= 1
    /\ module.clients <= 1
    /\ \A c1 \in Callers, c2 \in Callers :
          (module.callers[c1].got # 0 /\ module.callers[c2].got # 0) =>
              module.callers[c1].got = module.callers[c2].got

\* C32: on every route under an account (contact, statements, statement by
\* id, transactions, payment networks, asset transfer networks) the task of
\* the sub-resource is submitted only by the step in which the account
\* lookup has completed and returned an account; a lookup that returns no
\* account (404) or fails (500) is followed by no further task of that
\* request.
C32_SubResourceAfterLookup ==
    [][ (/\ route.endpoint \in SubResources
         /\ route'.endpoint = route.endpoint
         /\ Len(route'.submitted) > Len(route.submitted))
        => /\ route.pc = "lookup"
           /\ route.submitted = << "getAccountById" >>
           /\ CallActivity("getAccountById", store.data, route.arguments).result.items # << >>
           /\ ~route'.failure.thrown
           /\ route'.sent = << >>
           /\ route'.submitted = << "getAccountById", EndpointActivity(route.endpoint) >>
      ]_vars

\* The statements task is out, after a lookup that found the account.
C32_Witness ==
    /\ route.endpoint = "statements"
    /\ route.pc = "data"
    /\ route.submitted = << "getAccountById", "getAccountStatements" >>

\* C33: every route handler sends exactly one response per request on every
\* path (success, not found, invalid dates, failure of the account lookup,
\* failure of the data task): none while it waits, one when it has returned.
C33_ExactlyOneResponse ==
    /\ route.pc \in { "lookup", "data" } => route.sent = << >>
    /\ route.pc = "done" => Len(route.sent) = 1

\* The handler of the statements route has returned on the invalid dates path.
C33_Witness ==
    /\ route.pc = "done"
    /\ route.endpoint = "statements"
    /\ route.sent = << InvalidDateFormat >>

\* C34: when a task a route handler awaits ends in a terminal failure of any
\* kind, the handler answers 500 with { error: "Internal server error" }; the
\* failure does not reach the global error handler, and neither the status of
\* its kind (502, 503, 504) nor its retryable flag is sent.
C34_FailureAnswered500 ==
    route.failure.thrown =>
        /\ route.pc = "done"
        /\ route.sent = << InternalServerError >>
        /\ ~route.escaped

\* A data task has failed with a kind whose status is 504.
C34_Witness ==
    /\ route.failure.type = "DATABASE_TIMEOUT"
    /\ Len(route.submitted) = 2
    /\ route.sent = << InternalServerError >>

\* The whole list a paginated route pages through for the arguments of the
\* request: the accounts, the networks of the account, or the statements or
\* transactions of the account dated from startTime to endTime, both included
\* (a date not given leaves that side open).
FullList(endpoint, a) ==
    LET from == IF a.startTime = Unset THEN 0 ELSE a.startTime
        to   == IF a.endTime = Unset THEN MaxDate ELSE a.endTime
    IN  CASE endpoint = "accounts" -> store.data.accounts
          [] endpoint = "statements" ->
                SelectSeq(Lookup(store.data.accountStatements, a.accountId),
                          LAMBDA x : from <= x.statementDate /\ x.statementDate <= to)
          [] endpoint = "transactions" ->
                SelectSeq(Lookup(store.data.accountTransactions, a.accountId),
                          LAMBDA x : from <= x.postedTimestamp /\ x.postedTimestamp <= to)
          [] OTHER -> Lookup(store.data.accountPaymentNetworks, a.accountId)

\* C35: on the paginated routes, with offset >= 0 and limit >= 1, the answer
\* carries nextOffset = offset + limit exactly when offset + limit < total and
\* none otherwise; a client that starts at offset 0 and follows nextOffset has
\* received, after each page, the items up to that page once each and in
\* the order of the data set; it has them all when a page comes without
\* nextOffset, and that page comes within as many requests as there are items.
C35_PagesCoverTheList ==
    (/\ route.pc = "done"
     /\ route.endpoint \in Paginated
     /\ route.sent[1].status = 200
     /\ route.arguments.offset >= 0
     /\ route.arguments.limit >= 1)
    => LET offset == route.arguments.offset
           limit  == route.arguments.limit
           full   == FullList(route.endpoint, route.arguments)
           page   == route.sent[1].body
       IN  /\ page.hasMore <=> offset + limit < Len(full)
           /\ page.hasMore => page.nextOffset = offset + limit
           /\ page.hasMore => route.pages < MaxPages
           /\ offset = (route.pages - 1) * limit =>
                 /\ route.collected = SubSeq(full, 1, Min(Len(full), offset + limit))
                 /\ ~page.hasMore => route.collected = full
                 /\ route.pages = 1 \/ route.pages <= Len(full)

\* The third and last page of a walk through the payment networks of an
\* account, one item a page.
C35_Witness ==
    /\ route.pc = "done"
    /\ route.endpoint = "payment-networks"
    /\ route.arguments.limit = 1
    /\ route.pages = 3
    /\ route.arguments.offset = 2
    /\ ~route.sent[1].body.hasMore
    /\ Len(route.collected) = 3

\* Dates a route with dates refuses: one that is no date, or a start after
\* the end.
RefusedDates(a) ==
    \/ a.startTime = InvalidDate
    \/ a.endTime = InvalidDate
    \/ (a.startTime # Unset /\ a.endTime # Unset /\ a.startTime > a.endTime)

\* The date of an item of the statements or the transactions route.
DateOf(endpoint, item) ==
    IF endpoint = "statements" THEN item.statementDate ELSE item.postedTimestamp

\* What C36 says of a request with acceptable dates that was answered with
\* its data: the items are dated within [startTime, endTime], and total
\* counts the items of the account dated so.
ItemsInRange ==
    (route.pc = "done" /\ route.endpoint \in Dated /\ route.sent[1].status = 200)
    => LET a == route.arguments
           items == route.sent[1].body.items
       IN  /\ ~RefusedDates(a)
           /\ items = route.result.items
           /\ \A i \in 1..Len(items) :
                 /\ a.startTime # Unset => DateOf(route.endpoint, items[i]) >= a.startTime
                 /\ a.endTime # Unset => DateOf(route.endpoint, items[i]) <= a.endTime
           /\ route.result.total = Len(FullList(route.endpoint, a))

\* C36 as claimed: on the statements and transactions routes a request whose
\* startTime or endTime is no valid date, or whose startTime is later than
\* its endTime, is answered with 400 and its statements or transactions task
\* is never submitted; a request with valid or absent dates gets only items
\* dated within [startTime, endTime], and total counts exactly those.
C36_BadDatesAnswered400 ==
    /\ (route.pc = "done" /\ route.endpoint \in Dated /\ RefusedDates(route.arguments))
       => /\ route.sent[1].status = 400
          /\ route.submitted = << "getAccountById" >>
    /\ ItemsInRange

\* C36 amended: a request with such dates never has its statements or
\* transactions task submitted, and it is answered with 400 when the account
\* lookup returned an account; the 500 of a failed lookup and the 404 of an
\* unknown account come before the dates are looked at. The range and the
\* total are as claimed.
C36_BadDatesAfterLookup ==
    /\ (route.pc = "done" /\ route.endpoint \in Dated /\ RefusedDates(route.arguments))
       => /\ route.submitted = << "getAccountById" >>
          /\ IF route.failure.thrown
             THEN route.sent = << InternalServerError >>
             ELSE IF CallActivity("getAccountById", store.data,
                                  route.arguments).result.items = << >>
             THEN route.sent = << AccountNotFound >>
             ELSE /\ Len(route.sent) = 1
                  /\ route.sent[1].status = 400
    /\ ItemsInRange

\* A request for the transactions of a known account from a date after its
\* end date has been refused.
C36_Witness ==
    /\ route.pc = "done"
    /\ route.endpoint = "transactions"
    /\ route.arguments.accountId = "acc-1"
    /\ route.arguments.startTime = 26
    /\ route.arguments.endTime = 10
    /\ route.sent = << StartNotBeforeEnd >>

====
